---- MODULE Spec2Model ----
(***************************************************************************)
(* Model of the SocketSlack bot of botkube (pkg/bot, src/unnamed/part_001): *)
(* the channel registry (b.channels guarded by channelsMutex and            *)
(* notifyMutex), the notification router and the delivery loops, run by     *)
(* concurrent goroutines.                                                   *)
(***************************************************************************)
EXTENDS Integers, Sequences, FiniteSets, TLC

\* ------------------------------------------------------------------ bounds
\* total number of calls the goroutines make in one behaviour
MaxOps == 3

\* the goroutines calling into the bot concurrently
Procs == {1, 2}
NoProc == 0

\* keys of b.channels as built by NewSocketSlack, and one name that is no key
ChanNames == {"A", "B"}
Unconfigured == "X"
Names == ChanNames \cup {Unconfigured}

VARIABLES
    channels,     \* contents of the map object b.channels points to
    notifyMutex,  \* b.notifyMutex: the goroutine holding it, or NoProc
    rwReaders,    \* b.channelsMutex: goroutines holding the read lock
    rwWriter,     \* b.channelsMutex: goroutine that announced/holds the write lock
    pc,           \* position of each goroutine in the method it runs
    call,         \* the method each goroutine runs and its arguments
    loc,          \* local variables of the running method
    ret,          \* what the method returned (while pc = "done")
    opsLeft,      \* calls still to be made
    crashed,      \* the Go runtime ended the process (fatal error on a racing map access)
    ctxDone,      \* the context passed to Start is cancelled
    win,          \* observer: per channel, the configured value and then the value of the
                  \* last successful toggle that returned
    dwin,         \* observer: per channel, "open" when a disable returned while no enable was
                  \* running, "tainted" when it returned while enables that had started before
                  \* it were running, and "closed" again once an enable starts
    obs           \* observer: per goroutine, what held of the registry during its running call

locks == <<notifyMutex, rwReaders, rwWriter>>
observers == <<win, dwin, obs>>
vars == <<channels, notifyMutex, rwReaders, rwWriter, pc, call, loc, ret, opsLeft, crashed,
          ctxDone, win, dwin, obs>>

\* ------------------------------------------------------------ data model
\* channelConfigByName: Name + Bindings (embedded config.ChannelBindingsByName), alias, notify
ChannelConfig(name, alias, notify, sources, executors) ==
    [name |-> name, alias |-> alias, notify |-> notify,
     sources |-> sources, executors |-> executors]

\* the zero value a Go map lookup yields for a missing key
ZeroChannel == ChannelConfig("", "", FALSE, <<>>, <<>>)

\* channelConfigByName.Identifier(): the channel name
Identifier(cfg) == cfg.name

\* cfg.Channels turned into the map keyed by name (slackChannelsConfigFrom):
\* the alias is the key of the configuration, notify is !Notification.Disabled
slackChannelsConfigFrom(cfgChannels) ==
    [c \in DOMAIN cfgChannels |->
        ChannelConfig(c, cfgChannels[c].alias, ~cfgChannels[c].disabled,
                      cfgChannels[c].sources, cfgChannels[c].executors)]

\* one channel of cfg.Channels
ChannelCfg(alias, disabled, sources, executors) ==
    [alias |-> alias, disabled |-> disabled, sources |-> sources, executors |-> executors]

\* configurations of the concurrent runs: fixed bindings, any notification setting
Configs ==
    {[c \in ChanNames |->
        IF c = "A" THEN ChannelCfg("alias-a", d[c], <<"s1">>, <<"e1">>)
                   ELSE ChannelCfg("alias-b", d[c], <<"s2", "s1">>, <<"e2">>)] :
     d \in [ChanNames -> BOOLEAN]}

\* configurations of the sequential runs: any bindings, any notification setting
BindingLists == {<<>>, <<"s1">>, <<"s1", "s2">>, <<"s2", "s1">>}
WideConfigs ==
    {[c \in ChanNames |->
        ChannelCfg(IF c = "A" THEN "alias-a" ELSE "alias-b", d[c], b[c],
                   IF c = "A" THEN <<"e1">> ELSE <<"e2">>)] :
     d \in [ChanNames -> BOOLEAN], b \in [ChanNames -> BindingLists]}

\* interactive.Message as far as send reads it: the length of its rendering,
\* its kind, its two delivery flags, its plain-text inputs and its other
\* interactive elements
Message(size, type, replaceOriginal, onlyVisibleForYou, plaintextInputs, others) ==
    [size |-> size, type |-> type, replaceOriginal |-> replaceOriginal,
     onlyVisibleForYou |-> onlyVisibleForYou,
     plaintextInputs |-> plaintextInputs, others |-> others]

NoMessage == Message(0, "default", FALSE, FALSE, <<>>, <<>>)

\* slack.BlockAction as far as the event loop reads it
BlockAction(type, actionID, blockID, value, selectedOptions, selectedOption) ==
    [isNil |-> FALSE, type |-> type, actionID |-> actionID, blockID |-> blockID,
     value |-> value, selectedOptions |-> selectedOptions, selectedOption |-> selectedOption]

\* a nil *slack.BlockAction
NilAction == [BlockAction("", <<>>, <<>>, <<>>, <<>>, <<>>) EXCEPT !.isNil = TRUE]

\* slack.InteractionCallback of type block_actions as far as the event loop reads
\* it: ActionCallback.BlockActions, Channel.ID, View.ID, MessageTs,
\* Message.Msg.ThreadTimestamp, TriggerID, User.ID, ResponseURL
Callback(actions, channelID, viewID, messageTs, threadTimestamp, triggerID, userID, responseURL) ==
    [actions |-> actions, channelID |-> channelID, viewID |-> viewID,
     messageTs |-> messageTs, threadTimestamp |-> threadTimestamp,
     triggerID |-> triggerID, userID |-> userID, responseURL |-> responseURL]

NoCallback == Callback(<<>>, "", "", "", "", "", "", "")

\* socketSlackMessage as far as send reads it
SlackMessage(channel, threadTimeStamp, user, triggerID, responseURL) ==
    [channel |-> channel, threadTimeStamp |-> threadTimeStamp, user |-> user,
     triggerID |-> triggerID, responseURL |-> responseURL]

\* config.EventType: the types of event, as texts
CreateEvent == <<"c", "r", "e", "a", "t", "e">>
UpdateEvent == <<"u", "p", "d", "a", "t", "e">>
DeleteEvent == <<"d", "e", "l", "e", "t", "e">>
ErrorEvent == <<"e", "r", "r", "o", "r">>
WarningEvent == <<"w", "a", "r", "n", "i", "n", "g">>
InfoEvent == <<"i", "n", "f", "o">>

\* Event{}: the part of events.Event that New fills: Type, Level ("" is the
\* zero value of config.Level), Title, the kind of its TypeMeta, and where its
\* TimeStamp comes from
NoEvent == [type |-> <<>>, level |-> "", title |-> <<>>, kind |-> "", timeStamp |-> "zero"]

\* the tags of the struct validators and the prefixes of the Slack tokens
nsIncludeTag == "ns-include-regex"
invalidBindingTag == "invalid_binding"
appTokenPrefix == <<"x", "a", "p", "p", "-">>
botTokenPrefix == <<"x", "o", "x", "b", "-">>
warnsOnlyTags == {nsIncludeTag}

\* the entry of Namespaces.Include that selects every namespace
AllNamespaceIndicator == ".*"

\* the part of Config the struct validators read: the keys of Config.Sources
\* and Config.Executors, and the structs validate.Struct visits: BotBindings
\* and ActionBindings (Sources, Executors), SinkBindings (Sources), the Include
\* lists of Namespaces, Slack (Enabled, Token) and SocketSlack (Enabled,
\* BotToken, AppToken) values
Config(sources, executors, botBindings, actionBindings, sinkBindings, namespaces, slack, socketSlack) ==
    [sources |-> sources, executors |-> executors, botBindings |-> botBindings,
     actionBindings |-> actionBindings, sinkBindings |-> sinkBindings,
     namespaces |-> namespaces, slack |-> slack, socketSlack |-> socketSlack]

\* the call of a goroutine: the method and its arguments. newArgs are
\* the arguments of events.New: the kind of the object and whether it is an
\* *unstructured.Unstructured, the event type, the resource, whether
\* objectMeta.DeletionTimestamp is set; and for an object of kind Event what
\* TransformIntoTypedObject gives: an error, or the Type of the core Event,
\* whether its LastTimestamp is zero and whether it has a Series
NoCall == [op |-> "none", name |-> "", enabled |-> FALSE,
           evChannel |-> "", sources |-> <<>>, msg |-> NoMessage,
           callback |-> NoCallback, cancelled |-> FALSE,
           newArgs |-> [kind |-> "", isUnstructured |-> FALSE, eventType |-> <<>>,
                        resource |-> <<>>, hasDeletionTimestamp |-> FALSE,
                        transformErr |-> FALSE, objType |-> <<>>,
                        lastTimestampIsZero |-> FALSE, hasSeries |-> FALSE],
           config |-> Config({}, {}, <<>>, <<>>, <<>>, <<>>, <<>>, <<>>),
           args |-> <<>>, convID |-> "", conf |-> <<>>,
           socket |-> [type |-> "", dataOk |-> FALSE, apiType |-> "", inner |-> "",
                       channel |-> "", threadTs |-> "", cbType |-> "",
                       privateMetadata |-> "", inputs |-> <<>>]]
\* *slack.File: nil, or the public shares in the order the range loop visits them,
\* each the list of the timestamps of its ShareFileInfo
NoFile == [isNil |-> TRUE, shares |-> <<>>]
File(shares) == [isNil |-> FALSE, shares |-> shares]

NoLoc == [channel |-> ZeroChannel, exists |-> FALSE, todo |-> {}, out |-> <<>>,
          targets |-> <<>>, idx |-> 1, att |-> <<>>, failed |-> <<>>, errs |-> <<>>,
          section |-> FALSE,
          cmd |-> <<>>, origin |-> "", blockID |-> <<>>,
          event |-> SlackMessage("", "", "", "", ""), infoName |-> "",
          resp |-> NoMessage, calls |-> <<>>, file |-> NoFile, trace |-> <<>>,
          late |-> <<>>, conf |-> <<>>,
          found |-> FALSE, info |-> "", executed |-> FALSE,
          inView |-> FALSE, inputsLeft |-> <<>>, handled |-> <<>>]
NoRet == [err |-> "", val |-> FALSE, errs |-> <<>>, event |-> NoEvent,
          result |-> [criticals |-> <<>>, warnings |-> <<>>], reply |-> "", status |-> ""]
NoObs == [snaps |-> {}, capLit |-> {}, capAm |-> {}, pre |-> {}, quiet |-> "none"]
ErrNotificationsNotConfigured == "notifications not configured"

B2S(v) == IF v THEN "on" ELSE "off"

\* the notify flags of a registry content
FlagsOf(chs) == [c \in DOMAIN chs |-> chs[c].notify]

\* the bot as NewSocketSlack returns it, for a configuration among cfgs
InitWith(cfgs) ==
    /\ \E cfgChannels \in cfgs : channels = slackChannelsConfigFrom(cfgChannels)
    /\ notifyMutex = NoProc
    /\ rwReaders = {}
    /\ rwWriter = NoProc
    /\ pc = [p \in Procs |-> "idle"]
    /\ call = [p \in Procs |-> NoCall]
    /\ loc = [p \in Procs |-> NoLoc]
    /\ ret = [p \in Procs |-> NoRet]
    /\ opsLeft = MaxOps
    /\ crashed = FALSE
    /\ ctxDone = FALSE
    /\ win = [c \in ChanNames |-> B2S(channels[c].notify)]
    /\ dwin = [c \in ChanNames |-> "closed"]
    /\ obs = [p \in Procs |-> NoObs]

Init == InitWith(Configs)
InitSeq == InitWith(WideConfigs)

\* ------------------------------------------------------- the map accesses
\* goroutines in the middle of the map assignment channels[channelName] = channel
Assigning == {p \in Procs : pc[p] = "set_assigning"}

\* a map read by q overlaps a map assignment of another goroutine
RacesWithWrite(q) == \E p \in Assigning : p # q

\* what a read of key k can yield: the stored entry, or the entry an
\* overlapping assignment is storing (the read is not ordered with it)
MapRead(k) ==
    IF k \in DOMAIN channels
    THEN {[channel |-> channels[k], exists |-> TRUE]}
         \cup {[channel |-> loc[p].channel, exists |-> TRUE] :
                 p \in {w \in Assigning : call[w].name = k}}
    ELSE {[channel |-> ZeroChannel, exists |-> FALSE]}

\* goroutines inside getChannelsToNotify
RoutePCs == {"route_get", "route_get_r", "route_iter"}

\* observer: a registry content that exists from now on is seen by every
\* getChannelsToNotify call in progress
ObserveFlags(o, flags) ==
    [q \in Procs |-> IF pc[q] \in RoutePCs
                     THEN [o[q] EXCEPT !.snaps = @ \cup {flags}]
                     ELSE o[q]]

\* ------------------------------------------------- getChannels/setChannels
\* b.channelsMutex.RLock() of getChannels: blocked while a writer announced itself
GetChannelsRLock(p, from, to) ==
    /\ ~crashed
    /\ pc[p] = from
    /\ rwWriter = NoProc
    /\ rwReaders' = rwReaders \cup {p}
    /\ pc' = [pc EXCEPT ![p] = to]
    /\ UNCHANGED <<channels, notifyMutex, rwWriter, call, loc, ret, opsLeft, crashed, ctxDone, observers>>

\* return b.channels (the reference to the one map object) and the deferred RUnlock
GetChannelsRUnlock(p, from, to) ==
    /\ ~crashed
    /\ pc[p] = from
    /\ rwReaders' = rwReaders \ {p}
    /\ pc' = [pc EXCEPT ![p] = to]
    /\ UNCHANGED <<channels, notifyMutex, rwWriter, call, loc, ret, opsLeft, crashed, ctxDone, observers>>

\* ---------------------------------------------------------------- calls
\* a goroutine calls a method of the bot
StartCall(p, c, first) ==
    /\ ~crashed
    /\ pc[p] = "idle"
    /\ opsLeft > 0
    /\ opsLeft' = opsLeft - 1
    /\ call' = [call EXCEPT ![p] = c]
    /\ pc' = [pc EXCEPT ![p] = first]
    /\ UNCHANGED <<channels, locks, ret, crashed, ctxDone>>

\* the caller takes the returned value; the goroutine is free for its next call
Finish(p) ==
    /\ ~crashed
    /\ pc[p] = "done"
    /\ pc' = [pc EXCEPT ![p] = "idle"]
    /\ call' = [call EXCEPT ![p] = NoCall]
    /\ loc' = [loc EXCEPT ![p] = NoLoc]
    /\ ret' = [ret EXCEPT ![p] = NoRet]
    /\ obs' = [obs EXCEPT ![p] = NoObs]
    /\ UNCHANGED <<channels, locks, opsLeft, crashed, ctxDone, win, dwin>>

\* goroutines running SetNotificationsEnabled(c, v)
InSet(c, v) ==
    {q \in Procs : /\ pc[q] \notin {"idle", "done"}
                   /\ call[q].op = "SetNotificationsEnabled"
                   /\ call[q].name = c
                   /\ call[q].enabled = v}

\* ------------------------------------------------- NotificationsEnabled
CallNotificationsEnabled(p) ==
    \E n \in Names :
        /\ StartCall(p, [NoCall EXCEPT !.op = "NotificationsEnabled", !.name = n], "ne_get")
        \* observer: the value of the toggle of n that returned last (the
        \* configured value before any toggle), when no toggle of n is running
        /\ obs' = [obs EXCEPT ![p].quiet =
                      IF n \in ChanNames /\ InSet(n, TRUE) \cup InSet(n, FALSE) = {}
                      THEN win[n] ELSE "none"]
        /\ UNCHANGED <<loc, win, dwin>>

\* faulty variant of NotificationsEnabledResult: true for every configured channel
NotificationsEnabledResultExists(r) == r.exists

\* what NotificationsEnabled returns for the outcome of its lookup
NotificationsEnabledResult(r) == IF ~r.exists THEN FALSE ELSE r.channel.notify

\* channel, exists := b.getChannels()[channelName]; return false / channel.notify
NotificationsEnabledLookup(p) ==
    /\ ~crashed
    /\ pc[p] = "ne_lookup"
    /\ \E r \in MapRead(call[p].name) :
        ret' = [ret EXCEPT ![p] = [NoRet EXCEPT !.val = NotificationsEnabledResult(r)]]
    /\ pc' = [pc EXCEPT ![p] = "done"]
    /\ UNCHANGED <<channels, locks, call, loc, opsLeft, crashed, ctxDone, observers>>

NotificationsEnabled(p) ==
    \/ CallNotificationsEnabled(p)
    \/ GetChannelsRLock(p, "ne_get", "ne_get_r")
    \/ GetChannelsRUnlock(p, "ne_get_r", "ne_lookup")
    \/ NotificationsEnabledLookup(p)

\* --------------------------------------------- SetNotificationsEnabled
CallSetNotificationsEnabled(p) ==
    \E n \in Names, e \in BOOLEAN :
        /\ StartCall(p, [NoCall EXCEPT !.op = "SetNotificationsEnabled", !.name = n, !.enabled = e],
                     "set_lock")
        \* observer: a toggle of n has started (queries of n in progress are no
        \* longer before it); an enable of n closes the window a disable opened;
        \* a disable of n remembers the enables of n that started before it
        /\ LET o == [q \in Procs |->
                        IF call[q].op = "NotificationsEnabled" /\ call[q].name = n
                        THEN [obs[q] EXCEPT !.quiet = "none"] ELSE obs[q]]
           IN  IF n \notin ChanNames
               THEN UNCHANGED <<dwin, obs>>
               ELSE IF e
                    THEN /\ dwin' = [dwin EXCEPT ![n] = "closed"]
                         /\ obs' = [q \in Procs |-> [o[q] EXCEPT !.capLit = @ \ {n},
                                                                !.capAm = @ \ {n},
                                                                !.pre = @ \ {p}]]
                    ELSE /\ obs' = [o EXCEPT ![p].pre = InSet(n, TRUE)]
                         /\ UNCHANGED dwin
        /\ UNCHANGED <<loc, win>>

\* faulty variant of SetLockNotify: the call does not wait for the mutex
SetLockNotifyNoWait(p) ==
    /\ ~crashed
    /\ pc[p] = "set_lock"
    /\ notifyMutex' = p
    /\ pc' = [pc EXCEPT ![p] = "set_get"]
    /\ UNCHANGED <<channels, rwReaders, rwWriter, call, loc, ret, opsLeft, crashed, ctxDone, observers>>

\* b.notifyMutex.Lock()
SetLockNotify(p) ==
    /\ ~crashed
    /\ pc[p] = "set_lock"
    /\ notifyMutex = NoProc
    /\ notifyMutex' = p
    /\ pc' = [pc EXCEPT ![p] = "set_get"]
    /\ UNCHANGED <<channels, rwReaders, rwWriter, call, loc, ret, opsLeft, crashed, ctxDone, observers>>

\* faulty variant of SetNotifyField: a fresh entry with only the name and the flag
SetNotifyFieldFresh(channel, enabled) ==
    ChannelConfig(channel.name, "", enabled, <<>>, <<>>)

\* channel.notify = enabled on the local copy of the entry
SetNotifyField(channel, enabled) == [channel EXCEPT !.notify = enabled]

\* faulty variant of SetLookup: the `if !exists` return is missing, so the zero
\* value of the lookup is modified and stored
SetLookupNoExistsCheck(p) ==
    /\ ~crashed
    /\ pc[p] = "set_lookup"
    /\ \E r \in MapRead(call[p].name) :
        /\ loc' = [loc EXCEPT ![p].channel = [r.channel EXCEPT !.notify = call[p].enabled],
                              ![p].exists = TRUE]
        /\ pc' = [pc EXCEPT ![p] = "set_assigning"]
    /\ UNCHANGED <<channels, locks, call, ret, opsLeft, crashed, ctxDone, observers>>

\* channel, exists := channels[channelName]
\* if !exists { return execute.ErrNotificationsNotConfigured }   (deferred notifyMutex.Unlock())
\* channel.notify = enabled, and channels[channelName] = channel starts: the
\* runtime is inside mapassign, with notifyMutex held and channelsMutex not held
SetLookup(p) ==
    /\ ~crashed
    /\ pc[p] = "set_lookup"
    /\ \E r \in MapRead(call[p].name) :
        IF ~r.exists
        THEN /\ ret' = [ret EXCEPT ![p] = [NoRet EXCEPT !.err = ErrNotificationsNotConfigured]]
             /\ notifyMutex' = NoProc
             /\ pc' = [pc EXCEPT ![p] = "done"]
             /\ UNCHANGED <<loc, obs>>
        ELSE /\ loc' = [loc EXCEPT ![p].channel = SetNotifyField(r.channel, call[p].enabled),
                                   ![p].exists = TRUE]
             /\ pc' = [pc EXCEPT ![p] = "set_assigning"]
             /\ obs' = ObserveFlags(obs, [FlagsOf(channels) EXCEPT ![call[p].name] = call[p].enabled])
             /\ UNCHANGED <<notifyMutex, ret>>
    /\ UNCHANGED <<channels, rwReaders, rwWriter, call, opsLeft, crashed, ctxDone, win, dwin>>

\* faulty variant of StoreEntry: the assignment is lost
StoreEntryLost(chs, name, channel) == chs

\* the map after channels[channelName] = channel: the entry is replaced, or
\* inserted when the key is new
StoreEntry(chs, name, channel) ==
    [k \in DOMAIN chs \cup {name} |-> IF k = name THEN channel ELSE chs[k]]

\* channels[channelName] = channel completes: the entry of the shared map is replaced
SetAssignEnd(p) ==
    /\ ~crashed
    /\ pc[p] = "set_assigning"
    /\ channels' = StoreEntry(channels, call[p].name, loc[p].channel)
    /\ pc' = [pc EXCEPT ![p] = "set_store"]
    /\ obs' = ObserveFlags(obs, FlagsOf(channels'))
    /\ UNCHANGED <<locks, call, loc, ret, opsLeft, crashed, ctxDone, win, dwin>>

\* b.channelsMutex.Lock() of setChannels, first half: the writer announces itself
SetChannelsAnnounce(p) ==
    /\ ~crashed
    /\ pc[p] = "set_store"
    /\ rwWriter = NoProc
    /\ rwWriter' = p
    /\ pc' = [pc EXCEPT ![p] = "set_store_wait"]
    /\ UNCHANGED <<channels, notifyMutex, rwReaders, call, loc, ret, opsLeft, crashed, ctxDone, observers>>

\* b.channelsMutex.Lock() of setChannels, second half: the readers have left
SetChannelsLock(p) ==
    /\ ~crashed
    /\ pc[p] = "set_store_wait"
    /\ rwReaders = {}
    /\ pc' = [pc EXCEPT ![p] = "set_store_locked"]
    /\ UNCHANGED <<channels, locks, call, loc, ret, opsLeft, crashed, ctxDone, observers>>

\* b.channels = channels (the same map object again) and the deferred Unlock
SetChannelsUnlock(p) ==
    /\ ~crashed
    /\ pc[p] = "set_store_locked"
    /\ rwWriter' = NoProc
    /\ pc' = [pc EXCEPT ![p] = "set_unlock"]
    /\ UNCHANGED <<channels, notifyMutex, rwReaders, call, loc, ret, opsLeft, crashed, ctxDone, observers>>

\* return nil, with the deferred b.notifyMutex.Unlock()
SetReturn(p) ==
    /\ ~crashed
    /\ pc[p] = "set_unlock"
    /\ notifyMutex' = NoProc
    /\ ret' = [ret EXCEPT ![p] = [NoRet EXCEPT !.err = "nil"]]
    /\ pc' = [pc EXCEPT ![p] = "done"]
    \* observer: a toggle of call[p].name has returned
    /\ win' = [win EXCEPT ![call[p].name] = B2S(call[p].enabled)]
    /\ dwin' = IF call[p].enabled
               THEN dwin
               ELSE [dwin EXCEPT ![call[p].name] =
                        IF InSet(call[p].name, TRUE) = {} THEN "open"
                        ELSE IF InSet(call[p].name, TRUE) \subseteq obs[p].pre THEN "tainted"
                        ELSE "closed"]
    /\ UNCHANGED <<channels, rwReaders, rwWriter, call, loc, opsLeft, crashed, ctxDone, obs>>

SetNotificationsEnabled(p) ==
    \/ CallSetNotificationsEnabled(p)
    \/ SetLockNotify(p)
    \/ GetChannelsRLock(p, "set_get", "set_get_r")
    \/ GetChannelsRUnlock(p, "set_get_r", "set_lookup")
    \/ SetLookup(p)
    \/ SetAssignEnd(p)
    \/ SetChannelsAnnounce(p)
    \/ SetChannelsLock(p)
    \/ SetChannelsUnlock(p)
    \/ SetReturn(p)

\* ------------------------------------------------------------- routing
Elems(s) == {s[i] : i \in 1..Len(s)}

\* sliceutil.Intersect: the nested loops over the two lists find an equal pair
Intersect(this, that) ==
    \E i \in 1..Len(this) : \E j \in 1..Len(that) : this[i] = that[j]

\* faulty variant of NotifyStep: the notify flag is not looked at
NotifyStepIgnoreNotify(out, cfg, sourceBindings) ==
    IF ~Intersect(sourceBindings, cfg.sources)
    THEN out
    ELSE Append(out, Identifier(cfg))

\* body of the loop of getChannelsToNotify for one entry of the map
NotifyStep(out, cfg, sourceBindings) ==
    IF ~cfg.notify
    THEN out                                       \* "Skipping notification ..."; continue
    ELSE IF ~Intersect(sourceBindings, cfg.sources)
         THEN out                                  \* continue
         ELSE Append(out, Identifier(cfg))

\* faulty variant of getChannelsToNotifyForEvent: event.Channel is ignored
getChannelsToNotifyForEventNoCustom(evChannel, routed) == routed

\* getChannelsToNotifyForEvent: custom event routing, else the routed list
getChannelsToNotifyForEvent(evChannel, routed) ==
    IF evChannel # "" THEN <<evChannel>> ELSE routed

\* observer: the registry contents that exist right now
CurrentFlags ==
    {FlagsOf(channels)}
    \cup {[FlagsOf(channels) EXCEPT ![call[w].name] = call[w].enabled] : w \in Assigning}

\* observer: what is recorded when a sending call starts
ObsAtStart(routes) ==
    [snaps |-> IF routes THEN CurrentFlags ELSE {},
     capLit |-> {c \in ChanNames : dwin[c] # "closed"},
     capAm |-> {c \in ChanNames : dwin[c] = "open"}]

\* errs.ErrorOrNil()
ErrorOrNil(errs) == [NoRet EXCEPT !.err = IF errs = <<>> THEN "nil" ELSE "aggregate", !.errs = errs]

\* the loop over the targets starts, or the method returns when there is none
EnterLoop(p, targets, first) ==
    IF targets = <<>>
    THEN /\ pc' = [pc EXCEPT ![p] = "done"]
         /\ ret' = [ret EXCEPT ![p] = ErrorOrNil(<<>>)]
    ELSE /\ pc' = [pc EXCEPT ![p] = first]
         /\ UNCHANGED ret

FirstDeliveryPC(p) == IF call[p].op = "SendEvent" THEN "se_get" ELSE "sg_send"

\* getChannels() of getChannelsToNotify returns and the range loop starts
RouteStart(p) ==
    /\ ~crashed
    /\ pc[p] = "route_get_r"
    /\ rwReaders' = rwReaders \ {p}
    /\ loc' = [loc EXCEPT ![p].todo = DOMAIN channels, ![p].out = <<>>]
    /\ pc' = [pc EXCEPT ![p] = "route_iter"]
    /\ UNCHANGED <<channels, notifyMutex, rwWriter, call, ret, opsLeft, crashed, ctxDone, observers>>

\* one iteration of the range loop of getChannelsToNotify: the next entry
\* (Go visits the keys in no fixed order) is read from the map object, outside
\* channelsMutex; after the last one the loop ends
RouteIter(p) ==
    /\ ~crashed
    /\ pc[p] = "route_iter"
    /\ \E k \in loc[p].todo : \E r \in MapRead(k) :
        /\ loc' = [loc EXCEPT ![p].todo = @ \ {k},
                              ![p].out = NotifyStep(@, r.channel, call[p].sources)]
        /\ pc' = [pc EXCEPT ![p] = IF loc[p].todo = {k} THEN "route_ret" ELSE "route_iter"]
    /\ UNCHANGED <<channels, locks, call, ret, opsLeft, crashed, ctxDone, observers>>

\* return out: the caller has its list of targets and enters its loop
RouteReturn(p) ==
    /\ ~crashed
    /\ pc[p] = "route_ret"
    /\ LET targets == getChannelsToNotifyForEvent(call[p].evChannel, loc[p].out)
       IN  /\ loc' = [loc EXCEPT ![p].targets = targets, ![p].idx = 1]
           /\ EnterLoop(p, targets, FirstDeliveryPC(p))
    /\ obs' = [obs EXCEPT ![p].snaps = {}]
    /\ UNCHANGED <<channels, locks, call, opsLeft, crashed, ctxDone, win, dwin>>

\* ----------------------------------------------------------------- send
\* max size before a message is uploaded as a file
slackMaxMessageSize == 3001

\* the first share, in visiting order, with len(share) >= 1 && share[0].Ts != ""
RECURSIVE FirstShareTs(_)
FirstShareTs(shares) ==
    IF shares = <<>> THEN ""
    ELSE IF Len(Head(shares)) >= 1 /\ Head(shares)[1] # ""
         THEN Head(shares)[1]
         ELSE FirstShareTs(Tail(shares))

\* getThreadOptionIfNeeded: the timestamp of MsgOptionTS, "" for no option
getThreadOptionIfNeeded(event, file) ==
    IF event.threadTimeStamp # ""
    THEN event.threadTimeStamp
    ELSE IF file.isNil THEN "" ELSE FirstShareTs(file.shares)

\* a fallback message that keeps the other interactive elements as well
OnlyPlaintextInputsKeepOthers(resp) ==
    Message(0, "default", FALSE, FALSE, resp.plaintextInputs, resp.others)

\* interactive.Message{PlaintextInputs: resp.PlaintextInputs}
OnlyPlaintextInputs(resp) == Message(0, "default", FALSE, FALSE, resp.plaintextInputs, <<>>)

\* one call of the Slack client made by send
ApiCall(api, channel, user, ts, replace, metadata, msg) ==
    [api |-> api, channel |-> channel, user |-> user, ts |-> ts, replace |-> replace,
     metadata |-> metadata, msg |-> msg]

\* the part of send after the upload: modal, or ephemeral / normal post
sendRendered(event, resp, file, api) ==
    IF resp.type = "popup" /\ event.triggerID # ""
    THEN [err |-> IF api.viewErr THEN "while opening modal" ELSE "",
          calls |-> <<ApiCall("OpenView", "", "", "", FALSE, event.channel, resp)>>]
    ELSE LET ts == getThreadOptionIfNeeded(event, file)
             replace == resp.replaceOriginal /\ event.responseURL # ""
         IN  IF resp.onlyVisibleForYou
             THEN [err |-> IF api.postErr THEN "while posting Slack message visible only to user" ELSE "",
                   calls |-> <<ApiCall("PostEphemeral", event.channel, event.user, ts, replace, "", resp)>>]
             ELSE [err |-> IF api.postErr THEN "while posting Slack message" ELSE "",
                   calls |-> <<ApiCall("PostMessage", event.channel, "", ts, replace, "", resp)>>]

\* send: the error it returns ("" for nil), the calls it makes on the Slack
\* client and the file the upload returned, given how the client answers (api)
send(event, resp, api) ==
    IF resp.size = 0
    THEN [err |-> "while reading Slack response: empty response", calls |-> <<>>,
          file |-> NoFile]
    ELSE IF resp.size >= slackMaxMessageSize
         THEN LET upload == ApiCall("UploadFile", event.channel, "", event.threadTimeStamp,
                                    FALSE, "", resp)
              IN  IF api.uploadErr
                  THEN [err |-> "while uploading file", calls |-> <<upload>>, file |-> NoFile]
                  ELSE LET r == sendRendered(event, OnlyPlaintextInputs(resp), api.file, api)
                       IN  [err |-> r.err, calls |-> <<upload>> \o r.calls, file |-> api.file]
         ELSE LET r == sendRendered(event, resp, NoFile, api)
              IN  [err |-> r.err, calls |-> r.calls, file |-> NoFile]

\* how the Slack client can answer the calls of one send
Api(uploadErr, viewErr, postErr, file) ==
    [uploadErr |-> uploadErr, viewErr |-> viewErr, postErr |-> postErr, file |-> file]

\* ------------------------------------------------------------ SendEvent
CallSendEvent(p, evChannels, sourceLists) ==
    \E ch \in evChannels, srcs \in sourceLists :
        /\ StartCall(p, [NoCall EXCEPT !.op = "SendEvent", !.evChannel = ch, !.sources = srcs],
                     IF ch # "" THEN "se_get" ELSE "route_get")
        /\ loc' = [loc EXCEPT ![p].targets = getChannelsToNotifyForEvent(ch, <<>>), ![p].idx = 1]
        /\ obs' = [obs EXCEPT ![p] = ObsAtStart(ch = "")]
        /\ UNCHANGED <<win, dwin>>

\* getInteractiveEventSectionIfShould: the lookup of the target in the map, and
\* for a configured channel the commands the EventCommandProvider returns
\* (an error or no command gives no section)
SendEventSection(p) ==
    /\ ~crashed
    /\ pc[p] = "se_lookup"
    /\ \E r \in MapRead(loc[p].targets[loc[p].idx]) :
       \E hasCommands \in BOOLEAN :
          /\ r.exists \/ ~hasCommands
          /\ loc' = [loc EXCEPT ![p].section = hasCommands]
    /\ pc' = [pc EXCEPT ![p] = "se_post"]
    /\ UNCHANGED <<channels, locks, call, ret, opsLeft, crashed, ctxDone, observers>>

\* faulty variant of LoopTurn: the loop ends at the first failed delivery
LoopTurnStopOnError(p, channelName, ok, again) ==
    LET errs == IF ok THEN loc[p].errs ELSE Append(loc[p].errs, channelName)
        last == loc[p].idx >= Len(loc[p].targets) \/ ~ok
    IN  /\ loc' = [loc EXCEPT ![p].att = Append(@, channelName),
                              ![p].failed = Append(@, ~ok),
                              ![p].late = Append(@, call[p].cancelled),
                              ![p].errs = errs,
                              ![p].idx = @ + 1,
                              ![p].section = FALSE]
        /\ IF last
           THEN /\ pc' = [pc EXCEPT ![p] = "done"]
                /\ ret' = [ret EXCEPT ![p] = ErrorOrNil(errs)]
           ELSE /\ pc' = [pc EXCEPT ![p] = again]
                /\ UNCHANGED ret

\* the rest of one turn of a delivery loop, once the target was attempted with
\* outcome ok: the error is appended and the loop goes on (continue), and after
\* the last target errs.ErrorOrNil() is returned
LoopTurn(p, channelName, ok, again) ==
    LET errs == IF ok THEN loc[p].errs ELSE Append(loc[p].errs, channelName)
        last == loc[p].idx >= Len(loc[p].targets)
    IN  /\ loc' = [loc EXCEPT ![p].att = Append(@, channelName),
                              ![p].failed = Append(@, ~ok),
                              ![p].late = Append(@, call[p].cancelled),
                              ![p].errs = errs,
                              ![p].idx = @ + 1,
                              ![p].section = FALSE]
        /\ IF last
           THEN /\ pc' = [pc EXCEPT ![p] = "done"]
                /\ ret' = [ret EXCEPT ![p] = ErrorOrNil(errs)]
           ELSE /\ pc' = [pc EXCEPT ![p] = again]
                /\ UNCHANGED ret

\* b.client.PostMessageContext(ctx, channelName, options...) and the end of the turn
SendEventPost(p) ==
    /\ ~crashed
    /\ pc[p] = "se_post"
    /\ \E ok \in BOOLEAN :
        \* a post started with a cancelled context fails with the context's error
        /\ call[p].cancelled => ~ok
        /\ LoopTurn(p, loc[p].targets[loc[p].idx], ok, "se_get")
    /\ UNCHANGED <<channels, locks, call, opsLeft, crashed, ctxDone, observers>>

SendEvent(p, evChannels, sourceLists) ==
    \/ CallSendEvent(p, evChannels, sourceLists)
    \/ GetChannelsRLock(p, "route_get", "route_get_r")
    \/ RouteStart(p)
    \/ RouteIter(p)
    \/ RouteReturn(p)
    \/ GetChannelsRLock(p, "se_get", "se_get_r")
    \/ GetChannelsRUnlock(p, "se_get_r", "se_lookup")
    \/ SendEventSection(p)
    \/ SendEventPost(p)

\* the caller cancels the context it passed to a delivery call in progress
CancelContext(p) ==
    /\ ~crashed
    /\ pc[p] \notin {"idle", "done"}
    /\ call[p].op \in {"SendEvent", "SendGenericMessage"}
    /\ ~call[p].cancelled
    /\ call' = [call EXCEPT ![p].cancelled = TRUE]
    /\ UNCHANGED <<channels, locks, pc, loc, ret, opsLeft, crashed, ctxDone, observers>>

\* --------------------------------------------------- SendGenericMessage
CallSendGenericMessage(p, messages, sourceLists) ==
    \E m \in messages, srcs \in sourceLists :
        /\ StartCall(p, [NoCall EXCEPT !.op = "SendGenericMessage", !.msg = m, !.sources = srcs],
                     "route_get")
        /\ obs' = [obs EXCEPT ![p] = ObsAtStart(TRUE)]
        /\ UNCHANGED <<loc, win, dwin>>

\* msgMetadata of SendGenericMessage for one target
GenericMetadata(channelName) == SlackMessage(channelName, "", "", "", "")

\* err := b.send(msgMetadata, msg) and the end of the turn
SendGenericSend(p) ==
    /\ ~crashed
    /\ pc[p] = "sg_send"
    /\ \E uploadErr \in BOOLEAN, postErr \in BOOLEAN :
        LET api == Api(uploadErr, FALSE, postErr, File(<<>>))
            channelName == loc[p].targets[loc[p].idx]
            r == send(GenericMetadata(channelName), call[p].msg, api)
        IN  LoopTurn(p, channelName, r.err = "", "sg_send")
    /\ UNCHANGED <<channels, locks, call, opsLeft, crashed, ctxDone, observers>>

SendGenericMessage(p, messages, sourceLists) ==
    \/ CallSendGenericMessage(p, messages, sourceLists)
    \/ SendGenericSend(p)

\* ----------------------------------------------------- SendMessageToAll
CallSendMessageToAll(p) ==
    /\ StartCall(p, [NoCall EXCEPT !.op = "SendMessageToAll"], "all_get")
    /\ obs' = [obs EXCEPT ![p] = ObsAtStart(FALSE)]
    /\ UNCHANGED <<loc, win, dwin>>

\* a SendMessageToAll whose loop visits only the channels with notifications on
AllStartOnlyNotifying(p) ==
    /\ ~crashed
    /\ pc[p] = "all_get_r"
    /\ rwReaders' = rwReaders \ {p}
    /\ loc' = [loc EXCEPT ![p].todo = {c \in DOMAIN channels : channels[c].notify},
                           ![p].targets = <<>>]
    /\ pc' = [pc EXCEPT ![p] = IF \E c \in DOMAIN channels : channels[c].notify
                               THEN "all_iter" ELSE "done"]
    /\ UNCHANGED <<channels, notifyMutex, rwWriter, call, ret, opsLeft, crashed, ctxDone, observers>>

\* getChannels() of SendMessageToAll returns and the range loop starts
AllStart(p) ==
    /\ ~crashed
    /\ pc[p] = "all_get_r"
    /\ rwReaders' = rwReaders \ {p}
    /\ loc' = [loc EXCEPT ![p].todo = DOMAIN channels, ![p].targets = <<>>]
    /\ pc' = [pc EXCEPT ![p] = "all_iter"]
    /\ UNCHANGED <<channels, notifyMutex, rwWriter, call, ret, opsLeft, crashed, ctxDone, observers>>

\* the range loop of SendMessageToAll reads the next entry of the map object
AllIter(p) ==
    /\ ~crashed
    /\ pc[p] = "all_iter"
    /\ \E k \in loc[p].todo : \E r \in MapRead(k) :
        loc' = [loc EXCEPT ![p].todo = @ \ {k}, ![p].channel = r.channel,
                           ![p].targets = Append(@, k)]
    /\ pc' = [pc EXCEPT ![p] = "all_post"]
    /\ UNCHANGED <<channels, locks, call, ret, opsLeft, crashed, ctxDone, observers>>

\* b.client.PostMessageContext(ctx, channel.Name, message) and the end of the turn
AllPost(p) ==
    /\ ~crashed
    /\ pc[p] = "all_post"
    /\ \E ok \in BOOLEAN :
        LET errs == IF ok THEN loc[p].errs ELSE Append(loc[p].errs, loc[p].channel.name)
        IN  /\ loc' = [loc EXCEPT ![p].att = Append(@, loc[p].channel.name),
                                  ![p].failed = Append(@, ~ok),
                                  ![p].errs = errs]
            /\ IF loc[p].todo = {}
               THEN /\ pc' = [pc EXCEPT ![p] = "done"]
                    /\ ret' = [ret EXCEPT ![p] = ErrorOrNil(errs)]
               ELSE /\ pc' = [pc EXCEPT ![p] = "all_iter"]
                    /\ UNCHANGED ret
    /\ UNCHANGED <<channels, locks, call, opsLeft, crashed, ctxDone, observers>>

SendMessageToAll(p) ==
    \/ CallSendMessageToAll(p)
    \/ GetChannelsRLock(p, "all_get", "all_get_r")
    \/ AllStart(p)
    \/ AllIter(p)
    \/ AllPost(p)

\* ------------------------------------------------------ the data race
\* positions whose next step reads the map object outside channelsMutex
MapReadPCs == {"ne_lookup", "set_lookup", "route_iter", "se_lookup", "all_iter", "hm_lookup"}

\* a map read overlapping a map assignment: the runtime may detect it and end
\* the process ("fatal error: concurrent map read and map write")
FatalConcurrentMapAccess(q) ==
    /\ ~crashed
    /\ pc[q] \in MapReadPCs
    /\ RacesWithWrite(q)
    /\ crashed' = TRUE
    /\ UNCHANGED <<channels, locks, pc, call, loc, ret, opsLeft, ctxDone, observers>>

\* -------------------------------------------------------------- strings
\* the texts the event loop builds are sequences of characters
Whitespace == {" ", "\t", "\n"}

\* strings.HasPrefix
HasPrefix(s, prefix) ==
    Len(s) >= Len(prefix) /\ SubSeq(s, 1, Len(prefix)) = prefix

\* strings.Join
RECURSIVE Join(_, _)
Join(items, sep) ==
    IF items = <<>> THEN <<>>
    ELSE IF Len(items) = 1 THEN items[1]
    ELSE items[1] \o sep \o Join(Tail(items), sep)

\* strings.TrimSpace: leading and trailing white space removed
RECURSIVE TrimLeft(_)
TrimLeft(s) == IF s # <<>> /\ Head(s) \in Whitespace THEN TrimLeft(Tail(s)) ELSE s
RECURSIVE TrimRight(_)
TrimRight(s) ==
    IF s # <<>> /\ s[Len(s)] \in Whitespace THEN TrimRight(SubSeq(s, 1, Len(s) - 1)) ELSE s
\* a trim of the leading white space only
TrimSpaceLeading(s) == TrimLeft(s)

TrimSpace(s) == TrimRight(TrimLeft(s))

\* the verb %q of fmt.Sprintf: the text in double quotes, with the quote, the
\* backslash and the control characters escaped
RECURSIVE Escaped(_)
Escaped(s) ==
    IF s = <<>> THEN <<>>
    ELSE (CASE Head(s) = "\"" -> <<"\\", "\"">>
            [] Head(s) = "\\" -> <<"\\", "\\">>
            [] Head(s) = "\t" -> <<"\\", "t">>
            [] Head(s) = "\n" -> <<"\\", "n">>
            [] OTHER -> <<Head(s)>>) \o Escaped(Tail(s))
Quoted(s) == <<"\"">> \o Escaped(s) \o <<"\"">>

\* --------------------------------------------- resolveBlockActionCommand
\* a resolution whose select branches read the raw value of the action
resolveBlockActionCommandFromValue(act) ==
    CASE act.type = "multi_static_select" ->
             [cmd |-> act.actionID \o <<" ">> \o act.value, origin |-> "MultiSelectValueChange"]
      [] act.type = "static_select" ->
             [cmd |-> act.actionID \o <<" ">> \o act.value, origin |-> "SelectValueChange"]
      [] act.type = "button" ->
             [cmd |-> act.value, origin |-> "ButtonClick"]
      [] act.type = "plain_text_input" ->
             [cmd |-> act.blockID \o Quoted(TrimSpace(act.value)),
              origin |-> "PlainTextInput"]
      [] OTHER ->
             [cmd |-> act.value, origin |-> "Unknown"]

\* a resolution that puts the action ID in front of the value of a button and
\* of an action of an unknown type
resolveBlockActionCommandWithID(act) ==
    CASE act.type = "multi_static_select" ->
             [cmd |-> act.actionID \o <<" ">> \o Join(act.selectedOptions, <<",">>),
              origin |-> "MultiSelectValueChange"]
      [] act.type = "static_select" ->
             [cmd |-> act.actionID \o <<" ">> \o act.selectedOption,
              origin |-> "SelectValueChange"]
      [] act.type = "button" ->
             [cmd |-> act.actionID \o <<" ">> \o act.value, origin |-> "ButtonClick"]
      [] act.type = "plain_text_input" ->
             [cmd |-> act.blockID \o Quoted(TrimSpace(act.value)),
              origin |-> "PlainTextInput"]
      [] OTHER ->
             [cmd |-> act.actionID \o <<" ">> \o act.value, origin |-> "Unknown"]

\* resolveBlockActionCommand: the command text and its origin
resolveBlockActionCommand(act) ==
    CASE act.type = "multi_static_select" ->
             [cmd |-> act.actionID \o <<" ">> \o Join(act.selectedOptions, <<",">>),
              origin |-> "MultiSelectValueChange"]
      [] act.type = "static_select" ->
             [cmd |-> act.actionID \o <<" ">> \o act.selectedOption,
              origin |-> "SelectValueChange"]
      [] act.type = "button" ->
             [cmd |-> act.value, origin |-> "ButtonClick"]
      [] act.type = "plain_text_input" ->
             [cmd |-> act.blockID \o Quoted(TrimSpace(act.value)),
              origin |-> "PlainTextInput"]
      [] OTHER ->
             [cmd |-> act.value, origin |-> "Unknown"]

\* ------------------------------------------------- the event loop of Start
\* prefix of the action IDs of the URL buttons
urlButtonActionIDPrefix == <<"u", "r", "l", ":">>

\* one turn of the loop ends without a call of handleMessage (continue)
Continue(p) ==
    /\ pc' = [pc EXCEPT ![p] = "done"]
    /\ ret' = [ret EXCEPT ![p] = [NoRet EXCEPT !.err = "continue"]]

\* case event := <-websocketClient.Events, an interactive event of type block_actions
TakeBlockActions(p, callbacks) ==
    \E cb \in callbacks :
        /\ StartCall(p, [NoCall EXCEPT !.op = "BlockActions", !.callback = cb], "ba_filter")
        /\ UNCHANGED <<loc, observers>>

\* the checks before the resolution: the number of actions, the nil or URL
\* action (reported with act.ActionID, which dereferences act), the active modal
BlockActionsFilter(p) ==
    /\ ~crashed
    /\ pc[p] = "ba_filter"
    /\ LET cb == call[p].callback
           act == cb.actions[1]
       IN  IF Len(cb.actions) # 1
           THEN Continue(p) /\ UNCHANGED <<loc, crashed, ctxDone>>
           ELSE IF act.isNil
           THEN \* act.ActionID on a nil pointer: the goroutine of Start panics
                /\ crashed' = TRUE
                /\ UNCHANGED ctxDone
                /\ pc' = [pc EXCEPT ![p] = "panic"]
                /\ UNCHANGED <<loc, ret>>
           ELSE IF HasPrefix(act.actionID, urlButtonActionIDPrefix)
           THEN /\ loc' = [loc EXCEPT ![p].trace = Append(@, "ReportCommand")]
                /\ Continue(p)
                /\ UNCHANGED <<crashed, ctxDone>>
           ELSE IF cb.channelID = "" /\ cb.viewID # ""
           THEN Continue(p) /\ UNCHANGED <<loc, crashed, ctxDone>>
           ELSE /\ pc' = [pc EXCEPT ![p] = "ba_resolve"]
                /\ UNCHANGED <<loc, ret, crashed, ctxDone>>
    /\ UNCHANGED <<channels, locks, call, opsLeft, observers>>

\* threadTs of the block action: the thread of the message, else the message
ThreadTsOf(cb) ==
    IF cb.threadTimestamp # "" THEN cb.threadTimestamp ELSE cb.messageTs

\* a resolution whose text depends on the notify flags of the registry
BlockActionsResolveReadingRegistry(p) ==
    /\ ~crashed
    /\ pc[p] = "ba_resolve"
    /\ LET cb == call[p].callback
           act == cb.actions[1]
           r == resolveBlockActionCommand(act)
           quiet == \E c \in DOMAIN channels : ~channels[c].notify
       IN  loc' = [loc EXCEPT ![p].cmd = IF quiet THEN r.cmd \o <<" ">> ELSE r.cmd,
                              ![p].origin = r.origin,
                              ![p].blockID = act.blockID,
                              ![p].event = SlackMessage(cb.channelID, ThreadTsOf(cb), cb.userID,
                                                        cb.triggerID, cb.responseURL),
                              ![p].trace = Append(@, "resolveBlockActionCommand")]
    /\ pc' = [pc EXCEPT ![p] = "hm_mention"]
    /\ UNCHANGED <<channels, locks, call, ret, opsLeft, crashed, ctxDone, observers>>

\* cmd, cmdOrigin := resolveBlockActionCommand(*act) and msg := socketSlackMessage{...}
BlockActionsResolve(p) ==
    /\ ~crashed
    /\ pc[p] = "ba_resolve"
    /\ LET cb == call[p].callback
           act == cb.actions[1]
           r == resolveBlockActionCommand(act)
       IN  loc' = [loc EXCEPT ![p].cmd = r.cmd, ![p].origin = r.origin,
                              ![p].blockID = act.blockID,
                              ![p].event = SlackMessage(cb.channelID, ThreadTsOf(cb), cb.userID,
                                                        cb.triggerID, cb.responseURL),
                              ![p].trace = Append(@, "resolveBlockActionCommand")]
    /\ pc' = [pc EXCEPT ![p] = "hm_mention"]
    /\ UNCHANGED <<channels, locks, call, ret, opsLeft, crashed, ctxDone, observers>>

\* a handleMessage that goes on to the lookup whether or not the text has the
\* mention
HandleMessageMentionAnyText(p) ==
    /\ ~crashed
    /\ pc[p] = "hm_mention"
    /\ \E found \in BOOLEAN, infoErr \in BOOLEAN, name \in Names :
        IF infoErr
        THEN /\ name = Unconfigured
             /\ loc' = [loc EXCEPT ![p].trace = Append(@, "handleMessage"),
                                    ![p].found = found, ![p].info = "error"]
             /\ pc' = [pc EXCEPT ![p] = "done"]
             /\ ret' = [ret EXCEPT ![p] = [NoRet EXCEPT !.err = "while getting conversation info"]]
        ELSE /\ loc' = [loc EXCEPT ![p].trace = Append(@, "handleMessage"), ![p].infoName = name,
                                    ![p].found = found, ![p].info = "ok"]
             /\ pc' = [pc EXCEPT ![p] = "hm_get"]
             /\ UNCHANGED ret
    /\ UNCHANGED <<channels, locks, call, opsLeft, crashed, ctxDone, observers>>

\* handleMessage up to the lookup: the bot mention (botMentionRegex is built
\* outside this file: whether it matches is an input) and GetConversationInfo
HandleMessageMention(p) ==
    /\ ~crashed
    /\ pc[p] = "hm_mention"
    /\ \E found \in BOOLEAN, infoErr \in BOOLEAN, name \in Names :
        IF ~found
        THEN /\ name = Unconfigured /\ ~infoErr
             /\ loc' = [loc EXCEPT ![p].trace = Append(@, "handleMessage"),
                                    ![p].found = FALSE]
             /\ pc' = [pc EXCEPT ![p] = "done"]
             /\ ret' = [ret EXCEPT ![p] = [NoRet EXCEPT !.err = "nil"]]
        ELSE IF infoErr
        THEN /\ name = Unconfigured
             /\ loc' = [loc EXCEPT ![p].trace = Append(@, "handleMessage"),
                                    ![p].found = TRUE, ![p].info = "error"]
             /\ pc' = [pc EXCEPT ![p] = "done"]
             /\ ret' = [ret EXCEPT ![p] = [NoRet EXCEPT !.err = "while getting conversation info"]]
        ELSE /\ loc' = [loc EXCEPT ![p].trace = Append(@, "handleMessage"), ![p].infoName = name,
                                    ![p].found = TRUE, ![p].info = "ok"]
             /\ pc' = [pc EXCEPT ![p] = "hm_get"]
             /\ UNCHANGED ret
    /\ UNCHANGED <<channels, locks, call, opsLeft, crashed, ctxDone, observers>>

\* a handleMessage that hands the bindings of the first channel of the
\* registry to the executor when the conversation is in no channel of it
HandleMessageExecuteFirstChannel(p, responses) ==
    /\ ~crashed
    /\ pc[p] = "hm_lookup"
    /\ \E r \in MapRead(loc[p].infoName), response \in responses :
        loc' = [loc EXCEPT ![p].channel = IF r.exists THEN r.channel ELSE channels["A"],
                           ![p].exists = r.exists,
                           ![p].resp = response, ![p].executed = TRUE,
                           ![p].trace = Append(@, "Execute")]
    /\ pc' = [pc EXCEPT ![p] = "hm_send"]
    /\ UNCHANGED <<channels, locks, call, ret, opsLeft, crashed, ctxDone, observers>>

\* channel, isAuthChannel := b.getChannels()[info.Name], and the executor runs
\* with the conversation of that channel (alias, ID, executor bindings,
\* IsAuthenticated) and returns its response
HandleMessageExecute(p, responses) ==
    /\ ~crashed
    /\ pc[p] = "hm_lookup"
    /\ \E r \in MapRead(loc[p].infoName), response \in responses :
        loc' = [loc EXCEPT ![p].channel = r.channel, ![p].exists = r.exists,
                           ![p].resp = response, ![p].executed = TRUE,
                           ![p].trace = Append(@, "Execute")]
    /\ pc' = [pc EXCEPT ![p] = "hm_send"]
    /\ UNCHANGED <<channels, locks, call, ret, opsLeft, crashed, ctxDone, observers>>

\* err = b.send(event, response) and the return of handleMessage
HandleMessageSend(p, apis) ==
    /\ ~crashed
    /\ pc[p] = "hm_send"
    /\ \E api \in apis :
        LET r == send(loc[p].event, loc[p].resp, api)
        IN  /\ loc' = [loc EXCEPT ![p].calls = r.calls, ![p].file = r.file]
            /\ ret' = [ret EXCEPT ![p] =
                          IF r.err = "" THEN [NoRet EXCEPT !.err = "nil"]
                          ELSE [NoRet EXCEPT !.err = "while sending message", !.errs = <<r.err>>]]
    /\ pc' = [pc EXCEPT ![p] = "done"]
    /\ UNCHANGED <<channels, locks, call, opsLeft, crashed, ctxDone, observers>>

handleMessage(p, responses, apis) ==
    \/ HandleMessageMention(p)
    \/ GetChannelsRLock(p, "hm_get", "hm_get_r")
    \/ GetChannelsRUnlock(p, "hm_get_r", "hm_lookup")
    \/ HandleMessageExecute(p, responses)
    \/ HandleMessageSend(p, apis)

\* the turns of the loop of Start for interactive events of type block_actions
StartBlockActions(p, callbacks, responses, apis) ==
    \/ TakeBlockActions(p, callbacks)
    \/ BlockActionsFilter(p)
    \/ BlockActionsResolve(p)
    \/ handleMessage(p, responses, apis)

\* switch event.Type for an event taken from websocketClient.Events: the type
\* assertion on event.Data, websocketClient.Ack, and the switch on the inner
\* event of the Events API or on the type of the interaction callback
EventSwitch(p) ==
    /\ ~crashed
    /\ pc[p] = "ev_switch"
    /\ LET ev == call[p].socket
           acked == [loc EXCEPT ![p].trace = Append(@, "Ack")]
       IN  IF ev.type \notin {"events_api", "interactive"}
           THEN Continue(p) /\ UNCHANGED loc
           ELSE IF ~ev.dataOk
           THEN Continue(p) /\ UNCHANGED loc
           ELSE IF ev.type = "events_api"
           THEN IF ev.apiType = "event_callback" /\ ev.inner = "app_mention"
                THEN /\ loc' = [acked EXCEPT
                                   ![p].origin = "typed",
                                   ![p].event = SlackMessage(ev.channel, ev.threadTs,
                                                             call[p].callback.userID, "", "")]
                     /\ pc' = [pc EXCEPT ![p] = "hm_mention"]
                     /\ UNCHANGED ret
                ELSE Continue(p) /\ loc' = acked
           ELSE IF ev.cbType = "block_actions"
           THEN /\ loc' = acked
                /\ pc' = [pc EXCEPT ![p] = "ba_filter"]
                /\ UNCHANGED ret
           ELSE IF ev.cbType = "view_submission"
           THEN /\ loc' = [acked EXCEPT ![p].inView = TRUE, ![p].inputsLeft = ev.inputs]
                /\ pc' = [pc EXCEPT ![p] = "vs_next"]
                /\ UNCHANGED ret
           ELSE Continue(p) /\ loc' = acked
    /\ UNCHANGED <<channels, locks, call, opsLeft, crashed, ctxDone, observers>>

\* a loop over the inputs of a submitted view that ends with the first
\* handleMessage that returns an error
ViewSubmissionStopOnError(p) ==
    /\ ~crashed
    /\ loc[p].inView
    /\ pc[p] \in {"vs_next", "done"}
    /\ IF pc[p] = "done"
       THEN /\ loc' = [loc EXCEPT ![p].handled =
                          Append(@, [channel |-> loc[p].event.channel, cmd |-> loc[p].cmd,
                                     err |-> ret[p].err]),
                                  ![p].inputsLeft = IF ret[p].err = "nil" THEN @ ELSE <<>>]
            /\ pc' = [pc EXCEPT ![p] = "vs_next"]
            /\ ret' = [ret EXCEPT ![p] = NoRet]
       ELSE IF loc[p].inputsLeft = <<>>
       THEN /\ loc' = [loc EXCEPT ![p].inView = FALSE]
            /\ Continue(p)
       ELSE LET item == Head(loc[p].inputsLeft)
                act == [item.act EXCEPT !.actionID = item.actID]
                r == resolveBlockActionCommand(act)
            IN  /\ loc' = [loc EXCEPT
                              ![p].cmd = r.cmd, ![p].origin = r.origin,
                              ![p].event = SlackMessage(call[p].socket.privateMetadata, "",
                                                        call[p].callback.userID, "", ""),
                              ![p].inputsLeft = Tail(@),
                              ![p].found = FALSE, ![p].info = "", ![p].executed = FALSE,
                              ![p].calls = <<>>,
                              ![p].trace = Append(@, "resolveBlockActionCommand")]
                /\ pc' = [pc EXCEPT ![p] = "hm_mention"]
                /\ UNCHANGED ret
    /\ UNCHANGED <<channels, locks, call, opsLeft, crashed, ctxDone, observers>>

\* case slack.InteractionTypeViewSubmission: for every input of the state of
\* the view (in the order the range loops visit them) the action is
\* normalised and resolved, and handleMessage is called with the private
\* metadata of the view as channel; its error is logged
ViewSubmission(p) ==
    /\ ~crashed
    /\ loc[p].inView
    /\ pc[p] \in {"vs_next", "done"}
    /\ IF pc[p] = "done"
       THEN /\ loc' = [loc EXCEPT ![p].handled =
                          Append(@, [channel |-> loc[p].event.channel, cmd |-> loc[p].cmd,
                                     err |-> ret[p].err])]
            /\ pc' = [pc EXCEPT ![p] = "vs_next"]
            /\ ret' = [ret EXCEPT ![p] = NoRet]
       ELSE IF loc[p].inputsLeft = <<>>
       THEN /\ loc' = [loc EXCEPT ![p].inView = FALSE]
            /\ Continue(p)
       ELSE LET item == Head(loc[p].inputsLeft)
                act == [item.act EXCEPT !.actionID = item.actID]
                r == resolveBlockActionCommand(act)
            IN  /\ loc' = [loc EXCEPT
                              ![p].cmd = r.cmd, ![p].origin = r.origin,
                              ![p].event = SlackMessage(call[p].socket.privateMetadata, "",
                                                        call[p].callback.userID, "", ""),
                              ![p].inputsLeft = Tail(@),
                              ![p].found = FALSE, ![p].info = "", ![p].executed = FALSE,
                              ![p].calls = <<>>,
                              ![p].trace = Append(@, "resolveBlockActionCommand")]
                /\ pc' = [pc EXCEPT ![p] = "hm_mention"]
                /\ UNCHANGED ret
    /\ UNCHANGED <<channels, locks, call, opsLeft, crashed, ctxDone, observers>>

\* ------------------------------------------------- the notifier command
\* fakeNotifierHandler.NotificationsEnabled on the map conf
fakeNotificationsEnabled(conf, convID) ==
    IF convID \in DOMAIN conf THEN conf[convID] ELSE FALSE

\* a handler that stores the flag of a conversation it does not know
fakeSetNotificationsEnabledAddingKey(conf, convID, enabled) ==
    [err |-> "",
     conf |-> [k \in DOMAIN conf \cup {convID} |-> IF k = convID THEN enabled ELSE conf[k]]]

\* fakeNotifierHandler.SetNotificationsEnabled: the error ("" for nil) and the
\* map afterwards
fakeSetNotificationsEnabled(conf, convID, enabled) ==
    IF convID \notin DOMAIN conf
    THEN [err |-> ErrNotificationsNotConfigured, conf |-> conf]
    ELSE [err |-> "", conf |-> [conf EXCEPT ![convID] = enabled]]

\* NotifierExecutor.Do with a handler whose map is conf: the reply, the error
\* ("" for nil) and the map afterwards
Do(args, convID, conf) ==
    IF Len(args) # 2
    THEN [reply |-> "", err |-> "invalid command", conf |-> conf]
    ELSE IF args[2] \in {"start", "stop"}
    THEN LET r == fakeSetNotificationsEnabled(conf, convID, args[2] = "start")
         IN  IF r.err = ErrNotificationsNotConfigured
             THEN [reply |-> "not configured here", err |-> "", conf |-> r.conf]
             ELSE [reply |-> IF args[2] = "start" THEN "incoming notifications"
                             ELSE "won't send you notifications",
                   err |-> "", conf |-> r.conf]
    ELSE IF args[2] = "status"
    THEN [reply |-> IF fakeNotificationsEnabled(conf, convID) THEN "enabled here"
                    ELSE "disabled here",
          err |-> "", conf |-> conf]
    ELSE IF args[2] = "showconfig"
    THEN [reply |-> "showing config", err |-> "", conf |-> conf]
    ELSE [reply |-> "", err |-> "unsupported command", conf |-> conf]

\* the command is executed, and after a success the status is asked for
NotifierDo(p) ==
    /\ ~crashed
    /\ pc[p] \in {"do_command", "do_status"}
    /\ IF pc[p] = "do_command"
       THEN LET r == Do(call[p].args, call[p].convID, loc[p].conf)
            IN  /\ loc' = [loc EXCEPT ![p].conf = r.conf]
                /\ ret' = [ret EXCEPT ![p] = [NoRet EXCEPT !.err = r.err, !.reply = r.reply]]
                /\ pc' = [pc EXCEPT ![p] = IF r.err # "" THEN "done" ELSE "do_status"]
       ELSE LET r == Do(<<"notifier", "status">>, call[p].convID, loc[p].conf)
            IN  /\ loc' = [loc EXCEPT ![p].conf = r.conf]
                /\ ret' = [ret EXCEPT ![p].status = r.reply]
                /\ pc' = [pc EXCEPT ![p] = "done"]
    /\ UNCHANGED <<channels, locks, call, opsLeft, crashed, ctxDone, observers>>

\* --------------------------------------------------------- ValidateStruct
\* sl.ReportError: a FieldError with its tag, the struct it was reported on
\* (its StructNamespace), the name of the field, and the param: its text and
\* the token prefix the text names
FieldError(tag, ns, field, text, prefix) ==
    [tag |-> tag, ns |-> ns, field |-> field, param |-> [text |-> text, prefix |-> prefix]]

\* the errors of the structs of a list, in the order the structs are visited
RECURSIVE Collected(_)
Collected(reports) ==
    IF reports = <<>> THEN <<>> ELSE Head(reports) \o Collected(Tail(reports))

slackStructTokenValidator(slack, i) ==
    LET ns == <<"Slack", i>>
    IN  IF ~slack.enabled THEN <<>>
        ELSE IF slack.token = <<>>
        THEN <<FieldError("required", ns, "Token", "", <<>>)>>
        ELSE IF ~HasPrefix(slack.token, botTokenPrefix)
        THEN <<FieldError("invalid_slack_token", ns, "Token",
                          "must have the prefix", botTokenPrefix)>>
        ELSE <<>>

socketSlackStructTokenValidator(slack, i) ==
    LET ns == <<"SocketSlack", i>>
    IN  IF ~slack.enabled THEN <<>>
        ELSE (IF slack.appToken = <<>>
              THEN <<FieldError("required", ns, "AppToken", "", <<>>)>> ELSE <<>>)
          \o (IF slack.botToken = <<>>
              THEN <<FieldError("required", ns, "BotToken", "", <<>>)>> ELSE <<>>)
          \o (IF ~HasPrefix(slack.botToken, botTokenPrefix)
              THEN <<FieldError("invalid_slack_token", ns, "BotToken",
                                "must have the prefix", botTokenPrefix)>> ELSE <<>>)
          \o (IF ~HasPrefix(slack.appToken, appTokenPrefix)
              THEN <<FieldError("invalid_slack_token", ns, "AppToken",
                                "must have the prefix", appTokenPrefix)>> ELSE <<>>)

\* a validator of Namespaces that looks at lists of every length
namespacesStructValidatorOfAnyLength(include, i) ==
    IF \E k \in 1..Len(include) : include[k] = AllNamespaceIndicator
    THEN <<FieldError(nsIncludeTag, <<"Namespaces", i>>, "Include", "", <<>>)>>
    ELSE <<>>

namespacesStructValidator(include, i) ==
    IF Len(include) < 2 THEN <<>>
    ELSE IF \E k \in 1..Len(include) : include[k] = AllNamespaceIndicator
    THEN <<FieldError(nsIncludeTag, <<"Namespaces", i>>, "Include", "", <<>>)>>
    ELSE <<>>

validateSourceBindings(ns, sources, bindings) ==
    LET absent == SelectSeq(bindings, LAMBDA source : source \notin sources)
    IN  [k \in 1..Len(absent) |->
            FieldError(invalidBindingTag, ns, absent[k], "Config.Sources", <<>>)]

validateExecutorBindings(ns, executors, bindings) ==
    LET absent == SelectSeq(bindings, LAMBDA executor : executor \notin executors)
    IN  [k \in 1..Len(absent) |->
            FieldError(invalidBindingTag, ns, absent[k], "Config.Executors", <<>>)]

botBindingsStructValidator(conf, bindings, i) ==
    validateSourceBindings(<<"BotBindings", i>>, conf.sources, bindings.sources)
        \o validateExecutorBindings(<<"BotBindings", i>>, conf.executors, bindings.executors)

actionBindingsStructValidator(conf, bindings, i) ==
    validateSourceBindings(<<"ActionBindings", i>>, conf.sources, bindings.sources)
        \o validateExecutorBindings(<<"ActionBindings", i>>, conf.executors, bindings.executors)

sinkBindingsStructValidator(conf, bindings, i) ==
    validateSourceBindings(<<"SinkBindings", i>>, conf.sources, bindings.sources)

\* validate.Struct(in): every struct of the configuration is visited and the
\* errors its validator reports are collected
Struct(conf) ==
    Collected([i \in 1..Len(conf.actionBindings) |->
                  actionBindingsStructValidator(conf, conf.actionBindings[i], i)])
        \o Collected([i \in 1..Len(conf.namespaces) |->
                         namespacesStructValidator(conf.namespaces[i], i)])
        \o Collected([i \in 1..Len(conf.slack) |->
                         slackStructTokenValidator(conf.slack[i], i)])
        \o Collected([i \in 1..Len(conf.socketSlack) |->
                         socketSlackStructTokenValidator(conf.socketSlack[i], i)])
        \o Collected([i \in 1..Len(conf.botBindings) |->
                         botBindingsStructValidator(conf, conf.botBindings[i], i)])
        \o Collected([i \in 1..Len(conf.sinkBindings) |->
                         sinkBindingsStructValidator(conf, conf.sinkBindings[i], i)])

\* ValidateStruct: the errors with a tag of warnsOnlyTags go to Warnings, the
\* others to Criticals
ValidateStruct(conf) ==
    LET errs == Struct(conf)
    IN  [criticals |-> SelectSeq(errs, LAMBDA e : e.tag \notin warnsOnlyTags),
         warnings |-> SelectSeq(errs, LAMBDA e : e.tag \in warnsOnlyTags)]

\* a goroutine validates a configuration
CallValidateStruct(p, configs) ==
    \E conf \in configs :
        /\ StartCall(p, [NoCall EXCEPT !.op = "ValidateStruct", !.config = conf],
                     "validate_return")
        /\ UNCHANGED <<loc, observers>>

ValidateStructReturn(p) ==
    /\ ~crashed
    /\ pc[p] = "validate_return"
    /\ ret' = [ret EXCEPT ![p] = [NoRet EXCEPT !.result = ValidateStruct(call[p].config)]]
    /\ pc' = [pc EXCEPT ![p] = "done"]
    /\ UNCHANGED <<channels, locks, call, loc, opsLeft, crashed, ctxDone, observers>>

\* ------------------------------------------------------------ events.New
\* strings.ToLower on the letters of the texts of the runs
ToLower(s) ==
    LET Uppercase == <<"A", "B", "C", "D", "E", "F", "G", "H", "I", "J", "K", "L", "M",
                       "N", "O", "P", "Q", "R", "S", "T", "U", "V", "W", "X", "Y", "Z">>
        Lowercase == <<"a", "b", "c", "d", "e", "f", "g", "h", "i", "j", "k", "l", "m",
                       "n", "o", "p", "q", "r", "s", "t", "u", "v", "w", "x", "y", "z">>
    IN  [i \in 1..Len(s) |->
            IF \E k \in 1..Len(Uppercase) : Uppercase[k] = s[i]
            THEN Lowercase[CHOOSE k \in 1..Len(Uppercase) : Uppercase[k] = s[i]]
            ELSE s[i]]

\* LevelMap[eventType]: the config.Level of the table, the zero value "" for a
\* type that is no key of it
LevelMap(eventType) ==
    CASE eventType = CreateEvent -> "info"
      [] eventType = UpdateEvent -> "warn"
      [] eventType = DeleteEvent -> "critical"
      [] eventType = ErrorEvent -> "error"
      [] eventType = WarningEvent -> "error"
      [] OTHER -> ""

\* events.New: the error ("" for nil) and the Event it returns
New(a) ==
    LET timeStamp == IF a.eventType = CreateEvent THEN "creation"
                     ELSE IF a.eventType = DeleteEvent /\ a.hasDeletionTimestamp THEN "deletion"
                     ELSE "now"
        title == IF a.eventType \in {ErrorEvent, InfoEvent}
                 THEN a.resource \o <<" ">> \o a.eventType
                 ELSE a.resource \o <<" ">> \o a.eventType \o <<"d">>
        event == [type |-> a.eventType, level |-> LevelMap(a.eventType), title |-> title,
                  kind |-> a.kind, timeStamp |-> timeStamp]
    IN  IF a.kind # "Event"
        THEN [err |-> "", event |-> event]
        ELSE IF ~a.isUnstructured
        THEN [err |-> "cannot convert type", event |-> NoEvent]
        ELSE IF a.transformErr
        THEN [err |-> "while transforming object type", event |-> NoEvent]
        ELSE [err |-> "",
              event |-> [event EXCEPT
                            !.kind = "InvolvedObject",
                            !.level = LevelMap(ToLower(a.objType)),
                            !.timeStamp = IF a.lastTimestampIsZero /\ a.hasSeries
                                          THEN "lastObserved" ELSE "last"]]

\* a goroutine calls events.New
CallNew(p, args) ==
    \E a \in args :
        /\ StartCall(p, [NoCall EXCEPT !.op = "New", !.newArgs = a], "new_return")
        /\ UNCHANGED <<loc, observers>>

NewReturn(p) ==
    /\ ~crashed
    /\ pc[p] = "new_return"
    /\ LET r == New(call[p].newArgs)
       IN  ret' = [ret EXCEPT ![p] = [NoRet EXCEPT !.err = r.err, !.event = r.event]]
    /\ pc' = [pc EXCEPT ![p] = "done"]
    /\ UNCHANGED <<channels, locks, call, loc, opsLeft, crashed, ctxDone, observers>>

\* the context of Start is cancelled by its owner
CancelStart ==
    /\ ~ctxDone
    /\ ctxDone' = TRUE
    /\ UNCHANGED <<channels, locks, pc, call, loc, ret, opsLeft, crashed, observers>>

\* case <-ctx.Done(): return nil. The select takes this case, or the case of a
\* pending event, when the loop is at its top
StartReturn(p) ==
    /\ ~crashed
    /\ pc[p] = "idle"
    /\ ctxDone
    /\ pc' = [pc EXCEPT ![p] = "returned"]
    /\ ret' = [ret EXCEPT ![p] = [NoRet EXCEPT !.err = "nil"]]
    /\ UNCHANGED <<channels, locks, call, loc, opsLeft, crashed, ctxDone, observers>>

\* case socketmode.EventTypeConnected: Start returns the error of
\* ReportBotEnabled, or the loop goes on
TakeConnected(p) ==
    /\ ~crashed
    /\ pc[p] = "idle"
    /\ opsLeft > 0
    /\ opsLeft' = opsLeft - 1
    /\ \E reportErr \in BOOLEAN :
        IF reportErr
        THEN /\ pc' = [pc EXCEPT ![p] = "returned"]
             /\ ret' = [ret EXCEPT ![p] = [NoRet EXCEPT !.err = "report analytics error"]]
        ELSE UNCHANGED <<pc, ret>>
    /\ UNCHANGED <<channels, locks, call, loc, crashed, ctxDone, observers>>

\* ------------------------------------------------------ specifications
\* inputs of the concurrent runs
SourceLists == {<<"s1">>, <<"s2">>}
EventChannels == {"", Unconfigured}
GenericMessages ==
    {Message(10, "default", FALSE, FALSE, <<>>, <<"button">>),
     Message(0, "default", FALSE, FALSE, <<>>, <<>>)}

\* every method of the bot, called by concurrent goroutines
Next ==
    \E p \in Procs :
        \/ NotificationsEnabled(p)
        \/ SetNotificationsEnabled(p)
        \/ SendEvent(p, EventChannels, SourceLists)
        \/ SendGenericMessage(p, GenericMessages, SourceLists)
        \/ SendMessageToAll(p)
        \/ FatalConcurrentMapAccess(p)
        \/ Finish(p)

Spec == Init /\ [][Next]_vars

\* the NotifierHandler alone: goroutines toggle and query the notify flags
NextToggle ==
    \E p \in Procs :
        \/ NotificationsEnabled(p)
        \/ SetNotificationsEnabled(p)
        \/ FatalConcurrentMapAccess(p)
        \/ Finish(p)

SpecToggle == Init /\ [][NextToggle]_vars

\* inputs of the sequential runs
WideEventChannels == {"", "A", "B", Unconfigured}
WideMessages ==
    {Message(10, "default", FALSE, FALSE, <<>>, <<"button">>),
     Message(0, "default", FALSE, FALSE, <<>>, <<>>),
     Message(slackMaxMessageSize, "default", FALSE, FALSE, <<"input">>, <<"button">>)}

\* one goroutine calls the methods one after the other, on any configuration
NextSeq ==
    \/ NotificationsEnabled(1)
    \/ SetNotificationsEnabled(1)
    \/ SendEvent(1, WideEventChannels, BindingLists)
    \/ SendGenericMessage(1, WideMessages, BindingLists)
    \/ SendMessageToAll(1)
    \/ Finish(1)

SpecSeq == InitSeq /\ [][NextSeq]_vars

\* inputs of the event loop: block actions
UrlButton == BlockAction("button", urlButtonActionIDPrefix \o <<"x">>, <<"b">>, <<"h">>, <<>>, <<>>)
Button == BlockAction("button", <<"k">>, <<"b">>, <<"g", "e", "t">>, <<>>, <<>>)
ActionLists == {<<>>, <<NilAction>>, <<UrlButton>>, <<Button>>, <<Button, Button>>}
Callbacks ==
    {Callback(acts, ch[1], ch[2], mts, tts, trig, "U1", url) :
        acts \in ActionLists,
        ch \in {<<"C1", "">>, <<"", "V1">>, <<"", "">>},
        mts \in {"", "100.1"}, tts \in {"", "50.5"},
        trig \in {"", "trigger"}, url \in {"", "https://response"}}

\* the responses of the executor: empty, below, at and above the size limit,
\* of either kind, with any flags, with and without inputs and other elements
Responses ==
    {Message(size, type, replace, only, inputs, others) :
        size \in {0, slackMaxMessageSize - 1, slackMaxMessageSize, slackMaxMessageSize + 1},
        type \in {"default", "popup"},
        replace \in BOOLEAN, only \in BOOLEAN,
        inputs \in {<<>>, <<"input">>},
        others \in {<<>>, <<"button", "select">>}}

\* the files uploadFileToSlack can return, with their public shares in the
\* order the range loop visits them
Files ==
    {NoFile, File(<<>>),
     File(<< <<"200.2">>, <<"100.1">> >>), File(<< <<"100.1">>, <<"200.2">> >>),
     File(<< <<"", "100.1">> >>), File(<< <<>>, <<"200.2">> >>)}

\* the answers of the Slack client
Apis ==
    {Api(uploadErr, viewErr, postErr, file) :
        uploadErr \in BOOLEAN, viewErr \in BOOLEAN, postErr \in BOOLEAN, file \in Files}

\* the loop of Start handles the block actions it receives, one after the other
NextStart == StartBlockActions(1, Callbacks, Responses, Apis) \/ Finish(1)

\* handleMessage reads the registry without its notify flags: the runs of the
\* loop start with all notifications on, or all off
InitStart == InitWith({c \in Configs : c["A"].disabled = c["B"].disabled})

SpecStart == InitStart /\ [][NextStart]_vars

\* inputs of the resolution: the texts of the runs, as sequences of characters
Default == <<"d", "e", "f", "a", "u", "l", "t">>
KubeSystem == <<"k", "u", "b", "e", "-", "s", "y", "s", "t", "e", "m">>
Ns == <<"n", "s">>
RawValues == {<<>>, <<"r", "a", "w">>}

\* multi-select and single-select changes
SelectActions ==
    {BlockAction("multi_static_select", id, <<"b">>, raw, options, <<>>) :
        id \in {Ns, <<"k">>}, raw \in RawValues,
        options \in {<<>>, <<Default>>, <<Default, KubeSystem>>, <<KubeSystem, Default>>}}
    \cup
    {BlockAction("static_select", id, <<"b">>, raw, <<>>, option) :
        id \in {Ns, <<"k">>}, raw \in RawValues, option \in {<<>>, Default, KubeSystem}}

\* plain-text inputs: values with white space around and inside, with quotes
\* and backslashes
InputValues ==
    {<<>>, <<" ">>, <<"x">>, <<" ", "x">>, <<"x", " ">>, <<"\t", "x", "\n">>,
     <<"x", " ", "y">>, <<" ", "x", " ", "y", " ", " ">>,
     <<"a", "\"", "b">>, <<" ", "a", "\"", "b", "\n">>, <<"a", "\\", "b">>}
InputActions ==
    {BlockAction("plain_text_input", <<"i">>, blockID, value, <<>>, <<>>) :
        blockID \in {<<>>, <<"k", "c", " ">>}, value \in InputValues}

\* buttons and actions of a type the resolution does not know
OtherActions ==
    {BlockAction(type, <<"k">>, <<"b">>, value, <<>>, <<>>) :
        type \in {"button", "datepicker"}, value \in {<<>>, <<"g", "e", "t">>}}

ResolveCallbacks ==
    {Callback(<<act>>, "C1", "", "100.1", "", "trigger", "U1", "") :
        act \in SelectActions \cup InputActions \cup OtherActions \cup {UrlButton}}

\* inputs of the runs in which the handlers are not what is looked at: one
\* response of the executor and one answer of the Slack client (responses,
\* apis); one block action of each kind for the handlers that run while the
\* notify flags are toggled (pure); and for the runs of Start from its call to
\* its return a nil action, a URL button and a button (loop), with a post
\* that succeeds or fails (loopApis)
HandlerInputs ==
    [responses |-> {Message(slackMaxMessageSize - 1, "default", FALSE, FALSE, <<>>, <<>>)},
     apis |-> {Api(FALSE, FALSE, FALSE, NoFile)},
     pure |-> {Callback(<<act>>, "C1", "", "100.1", "", "trigger", "U1", "") : act \in
                 {Button,
                  BlockAction("multi_static_select", Ns, <<"b">>, <<"r", "a", "w">>,
                              <<Default, KubeSystem>>, <<>>),
                  BlockAction("plain_text_input", <<"i">>, <<"k", "c", " ">>, <<" ", "x", " ">>,
                              <<>>, <<>>)}},
     loop |-> {Callback(acts, "C1", "", "100.1", "", "trigger", "U1", "") :
                 acts \in {<<NilAction>>, <<UrlButton>>, <<Button>>}},
     loopApis |-> {Api(FALSE, FALSE, postErr, NoFile) : postErr \in BOOLEAN}]

\* the loop of Start resolving block actions of every kind, with one response
\* of the executor and one answer of the Slack client
NextResolve ==
    \/ StartBlockActions(1, ResolveCallbacks, HandlerInputs.responses, HandlerInputs.apis)
    \/ Finish(1)

SpecResolve == InitStart /\ [][NextResolve]_vars

\* one goroutine calls SendEvent and SendGenericMessage, and their context is
\* cancelled at any moment of the call
NextCancel ==
    \/ SendEvent(1, EventChannels, SourceLists)
    \/ SendGenericMessage(1, GenericMessages, SourceLists)
    \/ CancelContext(1)
    \/ Finish(1)

SpecCancel == Init /\ [][NextCancel]_vars

\* Start from its call to its return: the events pending on the socket are
\* connection events and block actions, and the context is cancelled at any
\* moment
LoopStep ==
    \/ StartBlockActions(1, HandlerInputs.loop, HandlerInputs.responses, HandlerInputs.loopApis)
    \/ TakeConnected(1)
    \/ Finish(1)
    \/ StartReturn(1)
NextLoop == LoopStep \/ CancelStart

\* the handlers return (weak fairness of the steps of Start), and the select
\* does not pass over a case that is ready forever
SpecLoop ==
    /\ InitStart
    /\ [][NextLoop]_vars
    /\ WF_vars(LoopStep)
    /\ SF_vars(StartReturn(1))

\* the events pending on the socket: connection events, events of the Events
\* API (app mentions and others), interactions (block actions in two
\* channels, submitted views with no, one and two inputs, others), each with
\* a payload of the expected or of another type, with the callback of the
\* interaction (events); the executor answers with a message or with a popup
\* (responses), and opening the view and posting succeed or fail (apis)
SocketInputs ==
    LET base == NoCall.socket
        blank == Callback(<<>>, "", "", "", "", "", "U1", "")
        input(value) == BlockAction("plain_text_input", <<>>, <<>>, value, <<>>, <<>>)
        inputs == {<<>>, <<[actID |-> <<"k">>, act |-> input(<<"x">>)]>>,
                   <<[actID |-> <<"k">>, act |-> Button]>>,
                   <<[actID |-> <<"k">>, act |-> input(<<"x">>)],
                     [actID |-> <<"i">>, act |-> input(<<" ", "y">>)]>>,
                   <<[actID |-> <<"i">>, act |-> input(<<" ", "y">>)],
                     [actID |-> <<"k">>, act |-> input(<<"x">>)]>>}
        taken ==
            {<<[base EXCEPT !.type = type], blank>> : type \in {"connecting", "hello"}}
            \cup {<<[base EXCEPT !.type = "events_api", !.dataOk = ok, !.apiType = apiType,
                                 !.inner = inner, !.channel = "C1", !.threadTs = ts], blank>> :
                     ok \in BOOLEAN, apiType \in {"event_callback", "url_verification"},
                     inner \in {"app_mention", "message"}, ts \in {"", "50.5"}}
            \cup {<<[base EXCEPT !.type = "interactive", !.dataOk = ok,
                                 !.cbType = "block_actions"],
                    Callback(acts, ch, "", "100.1", "", "trigger", "U1", "")>> :
                     ok \in BOOLEAN, ch \in {"C1", "C2"},
                     acts \in {<<NilAction>>, <<UrlButton>>, <<Button>>, <<Button, Button>>}}
            \cup {<<[base EXCEPT !.type = "interactive", !.dataOk = ok,
                                 !.cbType = "shortcut"], blank>> : ok \in BOOLEAN}
            \cup {<<[base EXCEPT !.type = "interactive", !.dataOk = ok,
                                 !.cbType = "view_submission", !.privateMetadata = pm,
                                 !.inputs = items], blank>> :
                     ok \in BOOLEAN, pm \in {"C1", "C2"}, items \in inputs}
    IN  [events |-> taken,
         responses |-> {Message(slackMaxMessageSize - 1, type, FALSE, FALSE, <<>>, <<>>) :
                          type \in {"default", "popup"}},
         apis |-> {Api(FALSE, viewErr, postErr, NoFile) :
                     viewErr \in BOOLEAN, postErr \in BOOLEAN}]

\* the loop of Start takes the events of the socket one after the other; the
\* context is cancelled at any moment
NextSocket ==
    \/ \E t \in SocketInputs.events :
        /\ StartCall(1, [NoCall EXCEPT !.op = "SocketEvent", !.socket = t[1],
                                       !.callback = t[2]], "ev_switch")
        /\ UNCHANGED <<loc, observers>>
    \/ EventSwitch(1)
    \/ BlockActionsFilter(1)
    \/ BlockActionsResolve(1)
    \/ handleMessage(1, SocketInputs.responses, SocketInputs.apis)
    \/ ViewSubmission(1)
    \/ TakeConnected(1)
    \/ StartReturn(1)
    \/ CancelStart
    \/ ~loc[1].inView /\ Finish(1)

SpecSocket == InitStart /\ [][NextSocket]_vars

\* the calls that take the locks, made by concurrent goroutines: toggles and
\* queries of the notify flags, SendEvent with its routing, and the handling
\* of an app mention
LockingStep(p) ==
    \/ SetNotificationsEnabled(p)
    \/ NotificationsEnabled(p)
    \/ SendEvent(p, {""}, {<<"s1">>})
    \/ \E t \in SocketInputs.events :
        /\ t[1].type = "events_api" /\ t[1].dataOk /\ t[1].threadTs = ""
        /\ t[1].apiType = "event_callback" /\ t[1].inner = "app_mention"
        /\ StartCall(p, [NoCall EXCEPT !.op = "SocketEvent", !.socket = t[1],
                                       !.callback = t[2]], "ev_switch")
        /\ UNCHANGED <<loc, observers>>
    \/ EventSwitch(p)
    \/ handleMessage(p, HandlerInputs.responses, HandlerInputs.apis)
    \/ Finish(p)
NextLocking == \E p \in Procs : LockingStep(p) \/ FatalConcurrentMapAccess(p)

\* every goroutine that can take a step takes one: the scheduler of Go runs
\* every runnable goroutine, and a goroutine blocked on a mutex is woken when
\* the mutex is free
SpecLocking ==
    /\ Init
    /\ [][NextLocking]_vars
    /\ \A p \in Procs : WF_vars(LockingStep(p))

\* one goroutine runs notifier commands on handlers that know none, one or
\* two conversations; the argument lists have one to three words
NextNotifier ==
    \/ \E args \in {<<"notifier">>, <<"notifier", "stop", "stop">>}
                   \cup {<<"notifier", verb>> :
                           verb \in {"start", "stop", "status", "showconfig", "foo"}},
          convID \in {"conv-id", "non-existing"},
          known \in SUBSET {"conv-id", "other"} :
            \E conf \in [known -> BOOLEAN] :
                /\ StartCall(1, [NoCall EXCEPT !.op = "Do", !.args = args,
                                               !.convID = convID, !.conf = conf],
                             "do_command")
                /\ loc' = [loc EXCEPT ![1].conf = conf]
                /\ UNCHANGED observers
    \/ NotifierDo(1)
    \/ Finish(1)

SpecNotifier == InitStart /\ [][NextNotifier]_vars

\* inputs of ValidateStruct. The global mappings know the source "s1" and the
\* executor "e1"; "sx" and "ex" are names no mapping knows. There are
\* configurations with one bot, one action and one sink binding; with one and
\* with two namespace selectors; with a Slack and a SocketSlack integration;
\* and configurations where bindings, selectors and tokens are wrong together
ValidateConfigs ==
    LET SourceBindingLists == {<<>>, <<"s1">>, <<"sx">>, <<"sx", "sx">>, <<"s1", "sx", "e1">>}
        ExecutorBindingLists == {<<>>, <<"e1">>, <<"ex", "e1", "ex">>, <<"s1">>}
        IncludeLists ==
            {<<>>, <<AllNamespaceIndicator>>, <<"default">>,
             <<AllNamespaceIndicator, "default">>, <<"default", AllNamespaceIndicator>>,
             <<"default", "kube-system">>, <<AllNamespaceIndicator, AllNamespaceIndicator>>,
             <<"default", AllNamespaceIndicator, "kube-system">>}
        Tokens ==
            {<<>>, botTokenPrefix \o <<"1">>, appTokenPrefix \o <<"1">>, <<"x", "o", "x">>}
        Slacks == [enabled : BOOLEAN, token : Tokens]
        SocketSlacks == [enabled : BOOLEAN, botToken : Tokens, appToken : Tokens]
    IN  {Config({"s1"}, {"e1"}, <<[sources |-> bs, executors |-> be]>>,
                <<[sources |-> as, executors |-> ae]>>, <<[sources |-> ss]>>,
                <<>>, <<>>, <<>>) :
            bs \in SourceBindingLists, be \in ExecutorBindingLists,
            as \in {<<>>, <<"sx">>}, ae \in {<<>>, <<"ex">>},
            ss \in SourceBindingLists}
        \cup {Config({"s1"}, {"e1"}, <<>>, <<>>, <<>>, ns, <<>>, <<>>) :
                ns \in {<<a>> : a \in IncludeLists} \cup {<<a, b>> : a, b \in IncludeLists}}
        \cup {Config({"s1"}, {"e1"}, <<>>, <<>>, <<>>, <<>>, <<sl>>, <<ss>>) :
                sl \in Slacks, ss \in SocketSlacks}
        \cup {Config({"s1"}, {"e1"}, <<[sources |-> bs, executors |-> <<"e1">>]>>, <<>>,
                     <<[sources |-> <<"s1">>]>>, <<ns>>,
                     <<[enabled |-> TRUE, token |-> t]>>,
                     <<[enabled |-> TRUE, botToken |-> t, appToken |-> t]>>) :
                bs \in {<<"s1">>, <<"sx">>},
                ns \in {<<"default">>, <<AllNamespaceIndicator, "default">>},
                t \in Tokens}

\* one goroutine validates configurations
NextValidate == CallValidateStruct(1, ValidateConfigs) \/ ValidateStructReturn(1) \/ Finish(1)

SpecValidate == InitStart /\ [][NextValidate]_vars

\* inputs of events.New: every event type, objects of kind Pod and of kind
\* Event, and core Events of type Normal and Warning
EventArgs ==
    [kind : {"Pod", "Event"}, isUnstructured : BOOLEAN,
     eventType : {CreateEvent, UpdateEvent, DeleteEvent, ErrorEvent, WarningEvent, InfoEvent},
     resource : {<<"p", "o", "d">>}, hasDeletionTimestamp : BOOLEAN, transformErr : BOOLEAN,
     objType : {<<"N", "o", "r", "m", "a", "l">>, <<"W", "a", "r", "n", "i", "n", "g">>},
     lastTimestampIsZero : BOOLEAN, hasSeries : BOOLEAN]

\* one goroutine builds events with events.New
NextEvents == CallNew(1, EventArgs) \/ NewReturn(1) \/ Finish(1)

SpecEvents == InitStart /\ [][NextEvents]_vars

\* handlers of block actions run while goroutines toggle the notify flags; the
\* handlers may overlap, which includes every run of the single loop of Start
NextPure ==
    \E p \in Procs :
        \/ StartBlockActions(p, HandlerInputs.pure, HandlerInputs.responses, HandlerInputs.apis)
        \/ SetNotificationsEnabled(p)
        \/ FatalConcurrentMapAccess(p)
        \/ Finish(p)

SpecPure == Init /\ [][NextPure]_vars

\* ------------------------------------------------------------- properties
\* goroutine p takes a step of the method op it is running (its call included)
StepOf(p, op) ==
    /\ call'[p].op = op
    /\ <<pc[p], loc[p], ret[p]>> # <<pc'[p], loc'[p], ret'[p]>>

\* C1: SetNotificationsEnabled(c, v) for a name c that is no key of b.channels
\* returns ErrNotificationsNotConfigured, for v = true and for v = false, and no
\* step of the call changes the key set or a notify flag of b.channels.
C1_SetUnknownChannel ==
    [][\A p \in Procs :
         (StepOf(p, "SetNotificationsEnabled") /\ call'[p].name \notin DOMAIN channels)
         => /\ DOMAIN channels' = DOMAIN channels
            /\ FlagsOf(channels') = FlagsOf(channels)
            /\ pc'[p] = "done" => ret'[p].err = ErrNotificationsNotConfigured]_vars

\* both SetNotificationsEnabled("X", true) and SetNotificationsEnabled("X", false)
\* have returned ErrNotificationsNotConfigured
C1_Witness ==
    \E p \in Procs, q \in Procs :
        /\ pc[p] = "done" /\ pc[q] = "done"
        /\ call[p] = [NoCall EXCEPT !.op = "SetNotificationsEnabled", !.name = Unconfigured, !.enabled = TRUE]
        /\ call[q] = [NoCall EXCEPT !.op = "SetNotificationsEnabled", !.name = Unconfigured, !.enabled = FALSE]
        /\ ret[p].err = ErrNotificationsNotConfigured
        /\ ret[q].err = ErrNotificationsNotConfigured


\* C2: concurrent SetNotificationsEnabled calls on configured channels are
\* serialized: once every toggle of a channel has returned, its notify flag is
\* the value of the toggle that returned last (the calls applied in the order
\* in which they held notifyMutex), and the configured value when the channel
\* was never toggled; so no toggle is lost and an enable followed by a disable
\* leaves the channel disabled.
C2_TogglesSerialized ==
    \A c \in ChanNames :
        InSet(c, TRUE) \cup InSet(c, FALSE) = {}
        => channels[c].notify = (win[c] = "on")

\* a disable of "A" returned while an enable of "A" that had started before it
\* was running, the enable returned after it, and no toggle of "A" is running
\* any more
C2_Witness ==
    /\ dwin["A"] = "tainted"
    /\ win["A"] = "on"
    /\ InSet("A", TRUE) \cup InSet("A", FALSE) = {}
    /\ channels["A"].notify

\* C3: while a goroutine is modifying an entry of the map (the assignment of
\* SetNotificationsEnabled), no other goroutine reads the map (a lookup or a
\* turn of a range loop) and no other goroutine writes it.
C3_MapAccessExclusive ==
    [][/\ Cardinality(Assigning) <= 1
       /\ \A q \in Procs :
            (pc[q] \in MapReadPCs /\ <<pc[q], loc[q], ret[q]>> # <<pc'[q], loc'[q], ret'[q]>>)
            => ~RacesWithWrite(q)]_vars

\* the routing rule applied to one content of the registry: the channels whose
\* notify flag is set in flags and whose source bindings meet sourceBindings
RoutingRule(flags, sourceBindings) ==
    {c \in DOMAIN flags : flags[c] /\ Elems(sourceBindings) \cap Elems(channels[c].sources) # {}}

\* C4: the list one getChannelsToNotify call computes while toggles run
\* concurrently is the routing rule applied to the registry as it was at one
\* single instant of the call.
C4_RoutingSnapshot ==
    \A p \in Procs :
        pc[p] = "route_ret"
        => \E flags \in obs[p].snaps : Elems(loc[p].out) = RoutingRule(flags, call[p].sources)

\* C5: when event.Channel is not empty, the targets of SendEvent are exactly
\* [event.Channel], whatever the notify flag and the bindings of that channel
\* and whether or not it is a key of the registry, and SendEvent posts to that
\* channel and to no other.
C5_CustomEventRouting ==
    \A p \in Procs :
        (call[p].op = "SendEvent" /\ call[p].evChannel # "")
        => /\ loc[p].targets = <<call[p].evChannel>>
           /\ Elems(loc[p].att) \subseteq {call[p].evChannel}
           /\ pc[p] = "done" => loc[p].att = <<call[p].evChannel>>

\* SendEvent with event.Channel = "A" has posted to "A", although "A" has
\* notifications disabled and no source binding
C5_Witness ==
    \E p \in Procs :
        /\ pc[p] = "done"
        /\ call[p].op = "SendEvent" /\ call[p].evChannel = "A" /\ call[p].sources = <<"s1">>
        /\ ~channels["A"].notify /\ channels["A"].sources = <<>>
        /\ loc[p].att = <<"A">>
        /\ ret[p].err = "nil"

\* the list has no element twice
NoDuplicates(s) == Cardinality(Elems(s)) = Len(s)

\* C6: when event.Channel is empty (and for SendGenericMessage) a channel is a
\* target iff its notify flag is true and its source bindings have an element
\* in common with the source bindings of the call; the order of either list
\* does not matter, an empty list on either side gives no target, and a
\* channel is a target at most once.
C6_RoutingRule ==
    \A p \in Procs :
        (/\ call[p].op \in {"SendEvent", "SendGenericMessage"}
         /\ call[p].evChannel = ""
         /\ pc[p] \notin RoutePCs)
        => /\ Elems(loc[p].out) = RoutingRule(FlagsOf(channels), call[p].sources)
           /\ NoDuplicates(loc[p].out)
           /\ pc[p] # "route_ret" => loc[p].targets = loc[p].out

\* SendGenericMessage with bindings [s2, s1] has posted to "A" (enabled, bound
\* to [s1, s2]) and not to "B" (bound to [s1], notifications disabled)
C6_Witness ==
    \E p \in Procs :
        /\ pc[p] = "done"
        /\ call[p].op = "SendGenericMessage" /\ call[p].sources = <<"s2", "s1">>
        /\ channels["A"].notify /\ channels["A"].sources = <<"s1", "s2">>
        /\ ~channels["B"].notify /\ channels["B"].sources = <<"s1">>
        /\ loc[p].targets = <<"A">>
        /\ loc[p].att = <<"A">>

\* the calls that route by the notify flags
RoutedCall(p) ==
    \/ call[p].op = "SendEvent" /\ call[p].evChannel = ""
    \/ call[p].op = "SendGenericMessage"

\* C7 as stated: after SetNotificationsEnabled(c, false) has returned, and as
\* long as no SetNotificationsEnabled(c, true) has started since that disable
\* was called, no SendEvent (with empty event.Channel) and no SendGenericMessage that
\* begins afterwards posts to c.
C7_NoPostAfterDisable ==
    \A p \in Procs :
        RoutedCall(p) => \A c \in obs[p].capLit : c \notin Elems(loc[p].att)

\* C7 amended: the same, provided also that no SetNotificationsEnabled(c, true)
\* was still running when the disable returned.
C7_NoPostAfterQuietDisable ==
    \A p \in Procs :
        RoutedCall(p) => \A c \in obs[p].capAm : c \notin Elems(loc[p].att)

\* a SendEvent for source s1 that began after a disable of "A" returned (no
\* enable of "A" running then or started since) has returned: it posted to
\* "B" and not to "A", whose bindings match as well
C7_Witness ==
    \E p \in Procs :
        /\ pc[p] = "done"
        /\ call[p].op = "SendEvent" /\ call[p].evChannel = "" /\ call[p].sources = <<"s1">>
        /\ "A" \in obs[p].capAm
        /\ Intersect(call[p].sources, channels["A"].sources)
        /\ loc[p].att = <<"B">>

\* C8: a NotificationsEnabled(c) call made after SetNotificationsEnabled(c, v)
\* returned nil, with no other toggle of c running at that return or started
\* before the query returns, returns v (and the configured value when c was
\* never toggled); NotificationsEnabled(x) returns false for every x that is no
\* key of the registry.
C8_QueryAfterToggle ==
    \A p \in Procs :
        (pc[p] = "done" /\ call[p].op = "NotificationsEnabled")
        => /\ obs[p].quiet # "none" => ret[p].val = (obs[p].quiet = "on")
           /\ call[p].name \notin DOMAIN channels => ret[p].val = FALSE

\* a disable and then an enable of "A" have returned, and a
\* NotificationsEnabled("A") called after that, with no toggle of "A" since,
\* has returned true
C8_Witness ==
    \E p \in Procs :
        /\ pc[p] = "done"
        /\ call[p].op = "NotificationsEnabled" /\ call[p].name = "A"
        /\ obs[p].quiet = "on"
        /\ dwin["A"] = "tainted"
        /\ ret[p].val = TRUE

\* C9: the only change any step makes to the registry is the one of a
\* successful SetNotificationsEnabled(c, v): the notify field of entry c becomes
\* v; the key set, the other entries, and the name, alias and bindings of
\* entry c stay as they are. No step of another method changes an entry.
C9_OnlyNotifyChanges ==
    [][/\ DOMAIN channels' = DOMAIN channels
       /\ \A c \in DOMAIN channels :
            channels'[c] # channels[c]
            => \E p \in Procs :
                  /\ call[p].op = "SetNotificationsEnabled" /\ call[p].name = c
                  /\ pc[p] = "set_assigning" /\ pc'[p] = "set_store"
                  /\ channels'[c] = [channels[c] EXCEPT !.notify = call[p].enabled]]_vars

\* SetNotificationsEnabled("A", true) has returned nil after a disable of "A":
\* entry "A" has its configured name, alias and bindings and notify = true,
\* and entry "B" is as configured
C9_Witness ==
    \E p \in Procs :
        /\ pc[p] = "done"
        /\ call[p].op = "SetNotificationsEnabled" /\ call[p].name = "A" /\ call[p].enabled
        /\ ret[p].err = "nil"
        /\ dwin["A"] = "tainted"
        /\ channels["A"] = ChannelConfig("A", "alias-a", TRUE, <<"s1">>, <<"e1">>)
        /\ \E n \in BOOLEAN :
              channels["B"] = ChannelConfig("B", "alias-b", n, <<"s2", "s1">>, <<"e2">>)

\* the targets whose delivery failed, in the order of the list
RECURSIVE FailedTargets(_, _)
FailedTargets(targets, failed) ==
    IF targets = <<>> \/ failed = <<>>
    THEN <<>>
    ELSE IF Head(failed)
         THEN <<Head(targets)>> \o FailedTargets(Tail(targets), Tail(failed))
         ELSE FailedTargets(Tail(targets), Tail(failed))

\* C10: in SendEvent and SendGenericMessage the delivery to each target is
\* independent: every target of the list is attempted exactly once, also after
\* an earlier delivery failed; the call returns nil iff every delivery
\* succeeded, and otherwise an aggregate with exactly one error per failed
\* target, naming its channel.
C10_IndependentDelivery ==
    \A p \in Procs :
        (pc[p] = "done" /\ call[p].op \in {"SendEvent", "SendGenericMessage"})
        => /\ loc[p].att = loc[p].targets
           /\ Len(loc[p].failed) = Len(loc[p].targets)
           /\ ret[p].err = "nil" <=> (\A i \in 1..Len(loc[p].failed) : ~loc[p].failed[i])
           /\ ret[p].err \in {"nil", "aggregate"}
           /\ ret[p].errs = FailedTargets(loc[p].targets, loc[p].failed)

\* a SendGenericMessage with two targets has returned: the first delivery
\* failed, the second was still attempted and succeeded, and the aggregate
\* holds the one error of the first target
C10_Witness ==
    \E p \in Procs :
        /\ pc[p] = "done"
        /\ call[p].op = "SendGenericMessage"
        /\ Len(loc[p].targets) = 2
        /\ loc[p].att = loc[p].targets
        /\ loc[p].failed = <<TRUE, FALSE>>
        /\ ret[p].err = "aggregate"
        /\ ret[p].errs = <<loc[p].targets[1]>>

\* ------------------------------------------------- properties of send
\* a turn of the loop whose handleMessage reached send and returned
Sent(p) == pc[p] = "done" /\ call[p].op = "BlockActions" /\ Len(loc[p].trace) = 3

\* the calls of one kind that send made on the Slack client
CallsOf(p, api) == {i \in 1..Len(loc[p].calls) : loc[p].calls[i].api = api}

\* send took the file-upload fallback
Uploaded(p) == CallsOf(p, "UploadFile") # {}

\* C11: a response with OnlyVisibleForYou set is never posted with PostMessage,
\* and when send succeeds without opening a modal it was posted with
\* PostEphemeral, whatever its rendered size and its other flags
C11_EphemeralOnly ==
    \A p \in Procs :
        (Sent(p) /\ loc[p].resp.onlyVisibleForYou)
            => /\ CallsOf(p, "PostMessage") = {}
               /\ (ret[p].err = "nil" /\ CallsOf(p, "OpenView") = {})
                    => CallsOf(p, "PostEphemeral") # {}

\* C12: send uploads the response as a file exactly when its rendered size is
\* strictly greater than slackMaxMessageSize; a response of at most that size
\* is delivered without upload, with its content unchanged
C12_UploadAboveThreshold ==
    \A p \in Procs :
        Sent(p)
            => /\ Uploaded(p) <=> loc[p].resp.size > slackMaxMessageSize
               /\ loc[p].resp.size <= slackMaxMessageSize
                    => \A i \in 1..Len(loc[p].calls) : loc[p].calls[i].msg = loc[p].resp

\* the calls of send that post a message to the channel
Posts(p) == CallsOf(p, "PostMessage") \cup CallsOf(p, "PostEphemeral")

\* C13: when send took the upload fallback, either the upload failed, send
\* returns that error and nothing is posted, or the only message posted holds
\* exactly the plain-text inputs of the response and no other element
C13_FallbackMessage ==
    \A p \in Procs :
        (Sent(p) /\ Uploaded(p))
            => IF ret[p].errs = <<"while uploading file">>
               THEN Len(loc[p].calls) = 1
               ELSE /\ Len(loc[p].calls) = 2
                    /\ Posts(p) = {2}
                    /\ loc[p].calls[2].msg.plaintextInputs = loc[p].resp.plaintextInputs
                    /\ loc[p].calls[2].msg.others = <<>>

C13_Witness ==
    /\ Sent(1) /\ Uploaded(1) /\ ret[1].err = "nil"
    /\ Posts(1) = {2}
    /\ loc[1].resp.plaintextInputs # <<>>
    /\ loc[1].resp.others # <<>>
    /\ loc[1].calls[2].msg.plaintextInputs = <<"input">>

\* send could open a modal: the response is a popup and the event has a trigger
ModalCase(p) == loc[p].resp.type = "popup" /\ loc[p].event.triggerID # ""

\* C14: for a response with a non-empty rendering, send calls OpenView exactly
\* when the response is a popup and the trigger ID is not empty, and then posts
\* nothing; a popup without trigger ID is posted to the channel as a message
C14_ModalIffPopupAndTrigger ==
    \A p \in Procs :
        (Sent(p) /\ loc[p].resp.size > 0)
            => /\ CallsOf(p, "OpenView") # {} <=> ModalCase(p)
               /\ CallsOf(p, "OpenView") # {} => Posts(p) = {}
               /\ (loc[p].resp.type = "popup" /\ loc[p].event.triggerID = "" /\ ret[p].err = "nil")
                    => Posts(p) # {}

\* C15: every message send posts carries MsgOptionReplaceOriginal exactly when
\* the response is flagged ReplaceOriginal and the ResponseURL of the event is
\* not empty: without ResponseURL a flagged response is a new post, and a
\* response that is not flagged never carries the option
C15_ReplaceOriginal ==
    \A p \in Procs :
        Sent(p)
            => \A i \in Posts(p) :
                  loc[p].calls[i].replace
                      <=> (loc[p].resp.replaceOriginal /\ loc[p].event.responseURL # "")

\* C16: the messages posted for a block action go to the thread of the
\* interacted message when it is inside a thread (non-empty thread timestamp);
\* otherwise, when the response was not uploaded as a file, they carry no
\* thread timestamp at all
C16_ThreadTarget ==
    \A p \in Procs :
        Sent(p)
            => \A i \in Posts(p) :
                  IF call[p].callback.threadTimestamp # ""
                  THEN loc[p].calls[i].ts = call[p].callback.threadTimestamp
                  ELSE ~Uploaded(p) => loc[p].calls[i].ts = ""

\* the timestamps of the runs, from the earliest to the latest
Timestamps == <<"50.5", "100.1", "200.2">>
Rank(ts) == CHOOSE i \in 1..Len(Timestamps) : Timestamps[i] = ts

\* the non-empty timestamps of all the public shares of a file
ShareTimestamps(file) ==
    UNION {{file.shares[i][j] : j \in 1..Len(file.shares[i])} :
              i \in 1..Len(file.shares)} \ {""}

\* the earliest of them, "" when there is none
EarliestShareTs(file) ==
    IF ShareTimestamps(file) = {} THEN ""
    ELSE CHOOSE t \in ShareTimestamps(file) :
            \A u \in ShareTimestamps(file) : Rank(t) <= Rank(u)

\* C17: when the event has no thread timestamp and the response was uploaded
\* as a file, the message posted after the upload goes to the earliest of the
\* file's public shares that have a timestamp, in whatever order the shares are
\* visited, and has no thread timestamp only when no share has one
C17_EarliestShare ==
    \A p \in Procs :
        (Sent(p) /\ Uploaded(p) /\ loc[p].event.threadTimeStamp = "" /\ ~loc[p].file.isNil)
            => \A i \in Posts(p) : loc[p].calls[i].ts = EarliestShareTs(loc[p].file)

\* ------------------------------------------- properties of the event loop
\* a block-action callback with a single action that is nil or a URL button
UrlOrNilAction(p) ==
    /\ call[p].op = "BlockActions"
    /\ Len(call[p].callback.actions) = 1
    /\ \/ call[p].callback.actions[1].isNil
       \/ HasPrefix(call[p].callback.actions[1].actionID, urlButtonActionIDPrefix)

\* C18: once the loop has examined a callback whose single action is nil or a
\* URL button, the callback has been reported with ReportCommand and skipped:
\* resolveBlockActionCommand, handleMessage and the executor were not called,
\* and the loop has not failed
C18_UrlActionsSkipped ==
    \A p \in Procs :
        (UrlOrNilAction(p) /\ pc[p] # "ba_filter")
            => /\ ~crashed
               /\ pc[p] = "done"
               /\ loc[p].trace = <<"ReportCommand">>

\* ----------------------------------------- properties of the resolution
\* the block action that the turn of p has resolved
Resolved(p) ==
    /\ call[p].op = "BlockActions"
    /\ loc[p].trace # <<>>
    /\ loc[p].trace[1] = "resolveBlockActionCommand"
ActOf(p) == call[p].callback.actions[1]

\* the items of a list, in order, with a comma between two of them
RECURSIVE CommaSeparated(_)
CommaSeparated(items) ==
    IF Len(items) = 0 THEN <<>>
    ELSE IF Len(items) = 1 THEN items[1]
    ELSE CommaSeparated(SubSeq(items, 1, Len(items) - 1)) \o <<",">> \o items[Len(items)]

\* C19: a select change resolves to the action ID, a space and the selected
\* values: for a multi-select the values in selection order with commas between
\* them and the origin of a multi-select change, for a single-select the
\* selected value and the origin of a select change; the raw value of the
\* action has no part in it
C19_SelectChange ==
    \A p \in Procs :
        Resolved(p)
            => /\ ActOf(p).type = "multi_static_select"
                    => /\ loc[p].cmd = ActOf(p).actionID \o <<" ">>
                                          \o CommaSeparated(ActOf(p).selectedOptions)
                       /\ loc[p].origin = "MultiSelectValueChange"
               /\ ActOf(p).type = "static_select"
                    => /\ loc[p].cmd = ActOf(p).actionID \o <<" ">> \o ActOf(p).selectedOption
                       /\ loc[p].origin = "SelectValueChange"

\* "ns default,kube-system", from an action that also has a raw value
C19_Witness ==
    /\ Resolved(1)
    /\ ActOf(1).type = "multi_static_select"
    /\ ActOf(1).value # <<>>
    /\ ActOf(1).selectedOptions = <<Default, KubeSystem>>
    /\ loc[1].cmd = <<"n", "s", " ", "d", "e", "f", "a", "u", "l", "t", ",",
                      "k", "u", "b", "e", "-", "s", "y", "s", "t", "e", "m">>
    /\ loc[1].origin = "MultiSelectValueChange"

\* the text between the first and the last character of s that is not white
\* space, empty when s has no such character
Core(s) ==
    LET black == {i \in 1..Len(s) : s[i] \notin Whitespace}
    IN  IF black = {} THEN <<>>
        ELSE SubSeq(s, CHOOSE i \in black : \A j \in black : i <= j,
                       CHOOSE i \in black : \A j \in black : i >= j)

\* C20: a plain-text input resolves to the block ID immediately followed by
\* the quoted form of the value without its leading and trailing white space,
\* with the origin of a plain-text input; values that differ only in the white
\* space around them resolve to the same text
C20_PlainTextInput ==
    \A p \in Procs :
        (Resolved(p) /\ ActOf(p).type = "plain_text_input")
            => /\ loc[p].cmd = ActOf(p).blockID \o Quoted(Core(ActOf(p).value))
               /\ loc[p].cmd[Len(ActOf(p).blockID) + 1] = "\""
               /\ loc[p].origin = "PlainTextInput"

\* ` a"b\n` in block `kc ` gives `kc "a\"b"`
C20_Witness ==
    /\ Resolved(1)
    /\ ActOf(1).type = "plain_text_input"
    /\ ActOf(1).blockID = <<"k", "c", " ">>
    /\ ActOf(1).value = <<" ", "a", "\"", "b", "\n">>
    /\ loc[1].cmd = <<"k", "c", " ", "\"", "a", "\\", "\"", "b", "\"">>
    /\ resolveBlockActionCommand([ActOf(1) EXCEPT !.value = <<"a", "\"", "b">>]).cmd = loc[1].cmd

\* the types of block action that resolveBlockActionCommand knows
KnownTypes == {"multi_static_select", "static_select", "button", "plain_text_input"}

\* C21: a button click resolves to the value of the action, unchanged, with
\* the origin of a button click, and an action of any type the resolution does
\* not know resolves to its value, unchanged, with the unknown origin: neither
\* the action ID nor the block ID is part of the text
C21_ButtonAndUnknown ==
    \A p \in Procs :
        Resolved(p)
            => /\ ActOf(p).type = "button"
                    => loc[p].cmd = ActOf(p).value /\ loc[p].origin = "ButtonClick"
               /\ ActOf(p).type \notin KnownTypes
                    => loc[p].cmd = ActOf(p).value /\ loc[p].origin = "Unknown"

C21_Witness ==
    /\ Resolved(1)
    /\ ActOf(1).type = "datepicker"
    /\ ActOf(1).actionID # <<>> /\ ActOf(1).blockID # <<>>
    /\ loc[1].cmd = <<"g", "e", "t">>
    /\ loc[1].origin = "Unknown"

\* two handlers that resolved the same block action hold the same text and origin
SameResolution ==
    \A p, q \in Procs :
        (Resolved(p) /\ Resolved(q) /\ ActOf(p) = ActOf(q))
            => loc[p].cmd = loc[q].cmd /\ loc[p].origin = loc[q].origin

C23_NoDeliveryAfterCancel ==
    \A p \in Procs :
        call[p].op \in {"SendEvent", "SendGenericMessage"}
            => \A i \in 1..Len(loc[p].late) : loc[p].late[i] => loc[p].failed[i]

\* C24: once the context of Start is cancelled, Start eventually returns nil,
\* and once Start has returned it handles no further event
C24_StartReturnsNil ==
    /\ ctxDone ~> (pc[1] = "returned" /\ ret[1].err = "nil")
    /\ [][pc[1] = "returned" => UNCHANGED <<pc, call, loc, ret, opsLeft>>]_vars

\* a block-action callback that comes from an active modal
FromActiveModal(p) ==
    /\ call[p].op = "BlockActions"
    /\ call[p].callback.channelID = ""
    /\ call[p].callback.viewID # ""

\* C30: once the loop has examined a block-action callback with an empty
\* channel ID and a view ID, the callback has been skipped: no command was
\* resolved, handleMessage and the executor were not called, nothing was sent,
\* and the loop goes on
C30_ActiveModalSkipped ==
    \A p \in Procs :
        (FromActiveModal(p) /\ pc[p] # "ba_filter")
            => /\ ~crashed
               /\ pc[p] = "done"
               /\ ret[p].err = "continue"
               /\ \A i \in 1..Len(loc[p].trace) : loc[p].trace[i] = "ReportCommand"
               /\ loc[p].calls = <<>>

\* the calls of events.New that have returned an Event without an error
Returned(p) ==
    /\ call[p].op = "New"
    /\ pc[p] = "done"
    /\ ret[p].err = ""

\* C29: every Event that events.New returns without an error has the level of
\* the table for its own Type, and that level is not empty
C29_LevelOfOwnType ==
    \A p \in Procs :
        Returned(p)
            => /\ ret[p].event.level = LevelMap(ret[p].event.type)
               /\ ret[p].event.level # ""

\* the calls of ValidateStruct that have returned
Validated(p) ==
    /\ call[p].op = "ValidateStruct"
    /\ pc[p] = "done"

\* the elements of a list
Elements(list) == {list[k] : k \in 1..Len(list)}

\* the source names and the executor names the binding lists of a
\* configuration use
BoundSources(conf) ==
    UNION ({Elements(conf.botBindings[k].sources) : k \in 1..Len(conf.botBindings)}
            \cup {Elements(conf.actionBindings[k].sources) : k \in 1..Len(conf.actionBindings)}
            \cup {Elements(conf.sinkBindings[k].sources) : k \in 1..Len(conf.sinkBindings)})
BoundExecutors(conf) ==
    UNION ({Elements(conf.botBindings[k].executors) : k \in 1..Len(conf.botBindings)}
            \cup {Elements(conf.actionBindings[k].executors) : k \in 1..Len(conf.actionBindings)})

\* the number of invalid_binding errors of a list for a name and a mapping
InvalidBindings(errs, name, mapping) ==
    Cardinality({k \in 1..Len(errs) :
                    /\ errs[k].tag = invalidBindingTag
                    /\ errs[k].field = name
                    /\ errs[k].param.text = mapping})

\* C25: validation reports exactly one invalid_binding critical for every
\* source name and every executor name that a binding list uses and the global
\* mapping does not have, however often the name is used, and none for a name
\* the mapping has; no invalid_binding error is a warning
C25_OneCriticalPerAbsentName ==
    \A p \in Procs :
        Validated(p) =>
            LET conf == call[p].config
                criticals == ret[p].result.criticals
            IN  /\ \A name \in BoundSources(conf) :
                      InvalidBindings(criticals, name, "Config.Sources")
                          = IF name \in conf.sources THEN 0 ELSE 1
                /\ \A name \in BoundExecutors(conf) :
                      InvalidBindings(criticals, name, "Config.Executors")
                          = IF name \in conf.executors THEN 0 ELSE 1
                /\ \A k \in 1..Len(ret[p].result.warnings) :
                      ret[p].result.warnings[k].tag # invalidBindingTag

\* the number of errors of a list with a tag, reported on a struct
Reported(errs, tag, ns) ==
    Cardinality({k \in 1..Len(errs) : errs[k].tag = tag /\ errs[k].ns = ns})

\* a list with two or more entries that has the all-namespaces indicator and
\* another entry
AllAndExact(include) ==
    /\ Len(include) >= 2
    /\ AllNamespaceIndicator \in Elements(include)
    /\ Elements(include) # {AllNamespaceIndicator}

\* C26: validation reports exactly one ns-include-regex warning for a list of
\* two or more entries that has the all-namespaces indicator and another
\* entry; for a list without the indicator, and for a list whose only entry is
\* the indicator, it reports no warning and no critical
C26_AllAndExactWarning ==
    \A p \in Procs :
        Validated(p) =>
            \A i \in 1..Len(call[p].config.namespaces) :
                LET include == call[p].config.namespaces[i]
                    at(errs) == {k \in 1..Len(errs) : errs[k].ns = <<"Namespaces", i>>}
                IN  /\ AllAndExact(include)
                        => /\ Reported(ret[p].result.warnings, nsIncludeTag, <<"Namespaces", i>>) = 1
                           /\ Cardinality(at(ret[p].result.warnings)) = 1
                    /\ (AllNamespaceIndicator \notin Elements(include)
                            \/ include = <<AllNamespaceIndicator>>)
                        => /\ at(ret[p].result.warnings) = {}
                           /\ at(ret[p].result.criticals) = {}

\* a validation has returned for a configuration with a list that has the
\* indicator and another entry and with a list that has the indicator only,
\* and has reported one warning
C26_Witness ==
    \E p \in Procs :
        /\ Validated(p)
        /\ Len(call[p].config.namespaces) = 2
        /\ AllAndExact(call[p].config.namespaces[1])
        /\ call[p].config.namespaces[2] = <<AllNamespaceIndicator>>
        /\ Len(ret[p].result.warnings) = 1
        /\ ret[p].result.criticals = <<>>

\* the criticals reported on a field of a struct
CriticalsAt(p, ns, field) ==
    SelectSeq(ret[p].result.criticals, LAMBDA e : e.ns = ns /\ e.field = field)

\* the errors reported on a struct
ErrorsAt(p, ns) ==
    SelectSeq(ret[p].result.criticals \o ret[p].result.warnings, LAMBDA e : e.ns = ns)

\* what the claim says of one token of an enabled integration: a token that
\* is missing or lacks its prefix has a critical that names the prefix it
\* should have, a token with the prefix has no error
TokenChecked(p, ns, field, token, prefix) ==
    IF HasPrefix(token, prefix)
    THEN CriticalsAt(p, ns, field) = <<>>
    ELSE \E k \in 1..Len(CriticalsAt(p, ns, field)) :
            CriticalsAt(p, ns, field)[k].param.prefix = prefix

\* C27: a disabled Slack or SocketSlack integration has no token error; an
\* enabled one has, for every token that is missing or lacks its prefix
\* (xoxb- for a bot token, xapp- for an app token), a critical that names the
\* expected prefix, and no error for a token with its prefix
C27_TokensOfEnabledIntegrations ==
    \A p \in Procs :
        Validated(p) =>
            LET conf == call[p].config
            IN  /\ \A i \in 1..Len(conf.slack) :
                      IF conf.slack[i].enabled
                      THEN TokenChecked(p, <<"Slack", i>>, "Token",
                                        conf.slack[i].token, botTokenPrefix)
                      ELSE ErrorsAt(p, <<"Slack", i>>) = <<>>
                /\ \A i \in 1..Len(conf.socketSlack) :
                      IF conf.socketSlack[i].enabled
                      THEN /\ TokenChecked(p, <<"SocketSlack", i>>, "BotToken",
                                           conf.socketSlack[i].botToken, botTokenPrefix)
                           /\ TokenChecked(p, <<"SocketSlack", i>>, "AppToken",
                                           conf.socketSlack[i].appToken, appTokenPrefix)
                      ELSE ErrorsAt(p, <<"SocketSlack", i>>) = <<>>

\* the entries of the binding lists of a kind of struct that a mapping does
\* not have
AbsentEntries(kind, field, lists, mapping) ==
    UNION {{<<kind, i, field, k>> : k \in {j \in 1..Len(lists[i]) : lists[i][j] \notin mapping}} :
              i \in 1..Len(lists)}

\* the fields of a configuration that violate a rule of the struct
\* validators: the entries of the binding lists that no mapping has, the
\* Include lists with the indicator among two or more entries, and the tokens
\* of the enabled integrations that are missing or lack their prefix
ViolatingFields(conf) ==
    LET sourcesOf(bindings) == [i \in 1..Len(bindings) |-> bindings[i].sources]
        executorsOf(bindings) == [i \in 1..Len(bindings) |-> bindings[i].executors]
    IN  AbsentEntries("BotBindings", "Sources", sourcesOf(conf.botBindings), conf.sources)
        \cup AbsentEntries("BotBindings", "Executors", executorsOf(conf.botBindings), conf.executors)
        \cup AbsentEntries("ActionBindings", "Sources", sourcesOf(conf.actionBindings), conf.sources)
        \cup AbsentEntries("ActionBindings", "Executors", executorsOf(conf.actionBindings), conf.executors)
        \cup AbsentEntries("SinkBindings", "Sources", sourcesOf(conf.sinkBindings), conf.sources)
        \cup {<<"Namespaces", i, "Include", 0>> : i \in
                {j \in 1..Len(conf.namespaces) :
                    /\ Len(conf.namespaces[j]) >= 2
                    /\ AllNamespaceIndicator \in Elements(conf.namespaces[j])}}
        \cup {<<"Slack", i, "Token", 0>> : i \in
                {j \in 1..Len(conf.slack) :
                    conf.slack[j].enabled /\ ~HasPrefix(conf.slack[j].token, botTokenPrefix)}}
        \cup {<<"SocketSlack", i, "BotToken", 0>> : i \in
                {j \in 1..Len(conf.socketSlack) :
                    /\ conf.socketSlack[j].enabled
                    /\ ~HasPrefix(conf.socketSlack[j].botToken, botTokenPrefix)}}
        \cup {<<"SocketSlack", i, "AppToken", 0>> : i \in
                {j \in 1..Len(conf.socketSlack) :
                    /\ conf.socketSlack[j].enabled
                    /\ ~HasPrefix(conf.socketSlack[j].appToken, appTokenPrefix)}}

\* C28: the errors with the tag ns-include-regex, and only they, are in
\* Warnings, the others are in Criticals; validation goes on after a
\* violation, and it reports as many errors as fields violate a rule, one for
\* each (two for an enabled SocketSlack with an empty bot token and an empty
\* app token)
C28_OneErrorPerViolatingField ==
    \A p \in Procs :
        Validated(p) =>
            LET result == ret[p].result
            IN  /\ \A k \in 1..Len(result.warnings) : result.warnings[k].tag = nsIncludeTag
                /\ \A k \in 1..Len(result.criticals) : result.criticals[k].tag # nsIncludeTag
                /\ Len(result.criticals) + Len(result.warnings)
                      = Cardinality(ViolatingFields(call[p].config))

\* the notifier commands that have returned
Done(p, verb) ==
    /\ call[p].op = "Do"
    /\ pc[p] = "done"
    /\ call[p].args = <<"notifier", verb>>

\* C31: after "notifier start" on a configured conversation the status is
\* enabled, after "notifier stop" it is disabled; on a conversation that is not
\* configured both return no error, reply that notifications are not
\* configured and leave the status disabled; an argument list that is not of
\* two words is an invalid command and an unknown verb an unsupported command,
\* and neither changes a flag
C31_NotifierCommand ==
    \A p \in Procs :
        /\ \A verb \in {"start", "stop"} :
              Done(p, verb) =>
                  /\ ret[p].err = ""
                  /\ IF call[p].convID \in DOMAIN call[p].conf
                     THEN /\ ret[p].status = IF verb = "start" THEN "enabled here"
                                             ELSE "disabled here"
                          /\ ret[p].reply # "not configured here"
                     ELSE /\ ret[p].reply = "not configured here"
                          /\ ret[p].status = "disabled here"
                          /\ loc[p].conf = call[p].conf
        /\ (call[p].op = "Do" /\ pc[p] = "done" /\ Len(call[p].args) # 2)
              => ret[p].err = "invalid command" /\ loc[p].conf = call[p].conf
        /\ (call[p].op = "Do" /\ pc[p] = "done" /\ Len(call[p].args) = 2
                /\ call[p].args[2] \notin {"start", "stop", "status", "showconfig"})
              => ret[p].err = "unsupported command" /\ loc[p].conf = call[p].conf

\* "notifier start" has returned for a conversation whose notifications were
\* off, and the status is enabled
C31_Witness ==
    \E p \in Procs :
        /\ Done(p, "start")
        /\ call[p].convID \in DOMAIN call[p].conf
        /\ ~call[p].conf[call[p].convID]
        /\ ret[p].status = "enabled here"

\* the socket events of the Events API and the interactions, and the number
\* of acknowledgements of the event in hand
Expected(p) == call[p].socket.type \in {"events_api", "interactive"}
Acks(p) == Cardinality({i \in 1..Len(loc[p].trace) : loc[p].trace[i] = "Ack"})

\* C32: an Events API or interactive event with a payload of the expected type
\* is acknowledged exactly once, before any call of handleMessage for it; one
\* with a payload of another type is neither acknowledged nor handled; and the
\* loop of Start ends only at its top, by the cancellation of the context or
\* by a failed report of the connection, never because of a handled event
C32_AckOnceBeforeHandling ==
    /\ [](\A p \in Procs :
            (call[p].op = "SocketEvent" /\ Expected(p) /\ pc[p] # "ev_switch")
                => IF call[p].socket.dataOk
                   THEN Acks(p) = 1 /\ loc[p].trace[1] = "Ack"
                   ELSE loc[p].trace = <<>> /\ loc[p].handled = <<>> /\ pc[p] = "done")
    /\ [](~crashed)
    /\ [](\A p \in Procs :
            pc[p] = "returned"
                => \/ ret[p].err = "nil" /\ ctxDone
                   \/ ret[p].err = "report analytics error")
    /\ [][\A p \in Procs : pc'[p] = "returned" => pc[p] \in {"idle", "returned"}]_vars

\* handleMessage has returned before the executor ran: the loop is behind the
\* call, and handleMessage is the last thing that ran for the event (the loop
\* over a submitted view is behind a call as long as it is in the view)
ReturnedEarly(p) ==
    /\ pc[p] = "done"
    /\ loc[p].trace # <<>>
    /\ loc[p].trace[Len(loc[p].trace)] = "handleMessage"
    /\ loc[p].inView = (call[p].socket.type = "interactive"
                          /\ call[p].socket.cbType = "view_submission")

\* C33: handleMessage acts only on a text with the bot mention. Without the
\* mention the conversation info is not asked for, the executor does not run,
\* nothing is sent and handleMessage returns nil; when the lookup of the
\* conversation info fails, the executor does not run, nothing is sent and
\* handleMessage returns the error of the lookup
C33_OnlyMentionsHandled ==
    \A p \in Procs :
        call[p].op = "SocketEvent"
            => /\ (loc[p].info # "" \/ loc[p].executed \/ loc[p].calls # <<>>) => loc[p].found
               /\ (loc[p].executed \/ loc[p].calls # <<>>) => loc[p].info = "ok"
               /\ ReturnedEarly(p)
                    => IF loc[p].found
                       THEN loc[p].info = "error"
                            /\ ret[p].err = "while getting conversation info"
                       ELSE ret[p].err = "nil"

\* a submitted view whose first command has no mention and whose second
\* command fails at the lookup of the conversation info
C33_Witness ==
    /\ call[1].op = "SocketEvent"
    /\ ReturnedEarly(1)
    /\ loc[1].found /\ loc[1].info = "error"
    /\ Len(loc[1].handled) = 1
    /\ loc[1].handled[1].err = "nil"

\* C34: the conversation handleMessage hands to the executor is authenticated
\* exactly when the name of the conversation is a key of the registry; the
\* executor bindings of an authenticated conversation are those of its
\* channel in the registry, and those of a conversation that is not in the
\* registry are empty
C34_AuthenticatedIffInRegistry ==
    \A p \in Procs :
        loc[p].executed
            => /\ loc[p].exists <=> loc[p].infoName \in DOMAIN channels
               /\ loc[p].channel.executors =
                      IF loc[p].infoName \in DOMAIN channels
                      THEN channels[loc[p].infoName].executors
                      ELSE <<>>

\* the executor has run for a conversation of the registry while the notify
\* flag of its channel was being assigned, and for one that is not in it
C34_Witness ==
    /\ loc[1].executed /\ loc[1].exists
    /\ loc[1].channel.executors = <<"e2">>
    /\ loc[1].channel.notify # channels[loc[1].infoName].notify
    /\ loc[2].executed /\ ~loc[2].exists
    /\ loc[2].infoName = Unconfigured

\* the event of p is a submitted view with a payload of the expected type
SubmittedView(p) ==
    /\ call[p].op = "SocketEvent"
    /\ call[p].socket.type = "interactive"
    /\ call[p].socket.cbType = "view_submission"
    /\ call[p].socket.dataOk

\* C35: the channel of a modal goes round. The view that send opens for an
\* interaction in a channel carries that channel as private metadata; and
\* for a submitted view handleMessage is called once for every input, in
\* their order, with the private metadata of the view as channel, whether or
\* not an earlier call has failed
C35_ModalChannelRoundTrip ==
    \A p \in Procs :
        /\ call[p].op = "SocketEvent"
            => \A i \in CallsOf(p, "OpenView") :
                   /\ loc[p].calls[i].metadata = loc[p].event.channel
                   /\ loc[p].event.channel = call[p].callback.channelID
        /\ SubmittedView(p)
            => /\ \A i \in 1..Len(loc[p].handled) :
                      /\ loc[p].handled[i].channel = call[p].socket.privateMetadata
                      /\ loc[p].handled[i].cmd =
                             resolveBlockActionCommand(
                                 [call[p].socket.inputs[i].act EXCEPT
                                     !.actionID = call[p].socket.inputs[i].actID]).cmd
               /\ pc[p] # "ev_switch"
                    => Len(loc[p].handled) + Len(loc[p].inputsLeft)
                           + (IF loc[p].inView /\ pc[p] # "vs_next" THEN 1 ELSE 0)
                       = Len(call[p].socket.inputs)

\* a view with two inputs and the private metadata C2 has been submitted, the
\* command of its first input has failed and the command of the second has
\* been handled as well
C35_Witness ==
    /\ SubmittedView(1)
    /\ call[1].socket.privateMetadata = "C2"
    /\ ~loc[1].inView /\ pc[1] = "done"
    /\ Len(loc[1].handled) = 2
    /\ loc[1].handled[1].err = "while sending message"
    /\ loc[1].handled[2].err = "nil"
    /\ loc[1].handled[2].channel = "C2"

\* C36: SendMessageToAll attempts the delivery to every channel of the
\* registry exactly once, whatever the notify flag and the bindings of the
\* channel; a failed delivery is added to the errors returned and the
\* remaining channels are still attempted
C36_ToAllChannels ==
    \A p \in Procs :
        call[p].op = "SendMessageToAll"
            => /\ NoDuplicates(loc[p].att)
               /\ Elems(loc[p].att) \subseteq DOMAIN channels
               /\ loc[p].errs = FailedTargets(loc[p].att, loc[p].failed)
               /\ pc[p] = "done"
                    => /\ Elems(loc[p].att) = DOMAIN channels
                       /\ ret[p] = ErrorOrNil(loc[p].errs)

\* a returned call on a registry whose channels have notifications off and
\* no bindings: the first delivery failed and the second was made
C36_Witness ==
    /\ call[1].op = "SendMessageToAll" /\ pc[1] = "done"
    /\ \A c \in DOMAIN channels : ~channels[c].notify /\ channels[c].sources = <<>>
    /\ Len(loc[1].att) = 2
    /\ loc[1].failed = <<TRUE, FALSE>>
    /\ ret[1].errs = <<loc[1].att[1]>>

\* the goroutines that hold channelsMutex (as reader, or as the writer once
\* the readers have left) and those that wait for notifyMutex
HoldsMapLock(p) == p \in rwReaders \/ (rwWriter = p /\ pc[p] = "set_store_locked")
WaitsForNotifyLock(p) == pc[p] = "set_lock"

\* the positions at which a call is inside the Slack client or the executor
ExternalCallPCs == {"hm_mention", "hm_lookup", "hm_send", "se_post", "sg_send", "all_post"}

\* C37: the calls do not deadlock. notifyMutex is never requested by a
\* goroutine that holds channelsMutex, channelsMutex is not held during a call
\* of the Slack client or of the executor, a goroutine that has returned holds
\* no lock, and under fair scheduling every call returns, so that every lock
\* it requested was acquired and released
C37_NoDeadlock ==
    /\ [](\A p \in Procs :
            /\ WaitsForNotifyLock(p) => ~HoldsMapLock(p) /\ rwWriter # p
            /\ pc[p] \in ExternalCallPCs => ~HoldsMapLock(p) /\ rwWriter # p
            /\ pc[p] \in {"idle", "done"}
                 => ~HoldsMapLock(p) /\ rwWriter # p /\ notifyMutex # p)
    /\ \A p \in Procs : []<>(pc[p] \in {"idle", "done"})

====
